---------------------------- MODULE Spec2Model ----------------------------
(***************************************************************************)
(* A model of m-conf: the INI-derived configuration parser.                *)
(*                                                                         *)
(* Text is modelled character by character: a Python str is a sequence of  *)
(* one-character strings, so that trimming, splitting on dots, the regular *)
(* expressions and shlex tokenization are computed, not assumed.           *)
(* The tree (Parser.Dict of config.py) is a function from paths (sequences *)
(* of keys) to entries; an entry is a scalar, a list or a section.         *)
(***************************************************************************)
EXTENDS Integers, Sequences, FiniteSets, TLC

(***************************************************************************)
(* Bounds of the model.                                                    *)
(***************************************************************************)
MaxLines == 3      \* lines read from one source
MaxSources == 2    \* sources of one batch
MaxList == 4       \* longest list a line may leave in the tree

(***************************************************************************)
(* Python str helpers.                                                     *)
(***************************************************************************)
None == <<"None">>     \* Python's None where a str is expected

IsSpace(c) == c = " "

RECURSIVE LStrip(_)
LStrip(s) == IF s # <<>> /\ IsSpace(Head(s)) THEN LStrip(Tail(s)) ELSE s

RECURSIVE RStrip(_)
RStrip(s) ==
  IF s # <<>> /\ IsSpace(s[Len(s)]) THEN RStrip(SubSeq(s, 1, Len(s) - 1)) ELSE s

\* str.strip()
Strip(s) == RStrip(LStrip(s))

\* str.split(sep): always at least one piece
RECURSIVE SplitAcc(_, _, _, _)
SplitAcc(s, sep, cur, out) ==
  IF s = <<>> THEN Append(out, cur)
  ELSE IF Head(s) = sep THEN SplitAcc(Tail(s), sep, <<>>, Append(out, cur))
  ELSE SplitAcc(Tail(s), sep, Append(cur, Head(s)), out)

Split(s, sep) == SplitAcc(s, sep, <<>>, <<>>)

\* sep.join(parts)
RECURSIVE Join(_, _)
Join(parts, sep) ==
  IF parts = <<>> THEN <<>>
  ELSE IF Len(parts) = 1 THEN parts[1]
  ELSE parts[1] \o sep \o Join(Tail(parts), sep)

Contains(s, c) == \E i \in 1..Len(s) : s[i] = c

\* list.index(x) is not needed as a number: the first matching position
FirstIndex(seq, x) == CHOOSE i \in 1..Len(seq) : seq[i] = x /\ \A j \in 1..(i - 1) : seq[j] # x

(***************************************************************************)
(* shlex.split(s): posix mode, split on whitespace only, no comments.      *)
(* The scanner state st is " " (between tokens), "a" (in a word), a quote  *)
(* character (inside quotes) or "\\" (after an escape; esc is the state to *)
(* return to).  The result is the token list, or a ValueError.             *)
(***************************************************************************)
Quotes == {"'", "\""}

RECURSIVE ShlexScan(_, _, _, _, _, _)
ShlexScan(s, st, esc, tok, quoted, out) ==
  IF s = <<>> THEN
    CASE st \in Quotes -> [ok |-> FALSE, toks |-> <<>>]   \* No closing quotation
      [] st = "\\"     -> [ok |-> FALSE, toks |-> <<>>]   \* No escaped character
      [] st = "a"      -> [ok |-> TRUE, toks |-> Append(out, tok)]
      [] OTHER         -> [ok |-> TRUE, toks |-> out]
  ELSE
    LET c == Head(s)
        r == Tail(s)
    IN CASE st = " " ->
              IF IsSpace(c) THEN ShlexScan(r, " ", esc, <<>>, FALSE, out)
              ELSE IF c = "\\" THEN ShlexScan(r, "\\", "a", <<>>, FALSE, out)
              ELSE IF c \in Quotes THEN ShlexScan(r, c, esc, <<>>, TRUE, out)
              ELSE ShlexScan(r, "a", esc, <<c>>, FALSE, out)
         [] st \in Quotes ->
              IF c = st THEN ShlexScan(r, "a", esc, tok, TRUE, out)
              ELSE IF c = "\\" /\ st = "\"" THEN ShlexScan(r, "\\", st, tok, TRUE, out)
              ELSE ShlexScan(r, st, esc, Append(tok, c), TRUE, out)
         [] st = "\\" ->
              IF esc \in Quotes /\ c # "\\" /\ c # esc
                THEN ShlexScan(r, esc, esc, tok \o <<"\\", c>>, quoted, out)
                ELSE ShlexScan(r, esc, esc, Append(tok, c), quoted, out)
         [] OTHER ->   \* st = "a"
              IF IsSpace(c) THEN ShlexScan(r, " ", esc, <<>>, FALSE, Append(out, tok))
              ELSE IF c \in Quotes THEN ShlexScan(r, c, esc, tok, TRUE, out)
              ELSE IF c = "\\" THEN ShlexScan(r, "\\", "a", tok, quoted, out)
              ELSE ShlexScan(r, "a", esc, Append(tok, c), quoted, out)

shlex_split(s) == ShlexScan(s, " ", "a", <<>>, FALSE, <<>>)

(***************************************************************************)
(* The regular expressions of config.py and parser.py, as scanners.        *)
(***************************************************************************)
\* the characters of the model's alphabet that \w or - matches
WordChars == {"a", "b", "c", "k", "j", "s", "t", "x", "_", "-"}

IsWord(c) == c \in WordChars

\* LINE: group 1, the text before the first # that no backslash precedes
RECURSIVE LINE_scan(_, _)
LINE_scan(s, i) ==
  IF i > Len(s) THEN s
  ELSE IF s[i] = "#" /\ (i = 1 \/ s[i - 1] # "\\") THEN SubSeq(s, 1, i - 1)
  ELSE LINE_scan(s, i + 1)

LINE(s) == LINE_scan(s, 1)

\* SECTION: ^\[\s*(.*)\s*]$ ; (.*) is greedy, so only leading blanks are dropped
SECTION(s) ==
  IF Len(s) >= 2 /\ s[1] = "[" /\ s[Len(s)] = "]"
    THEN [match |-> TRUE, name |-> LStrip(SubSeq(s, 2, Len(s) - 1))]
    ELSE [match |-> FALSE, name |-> <<>>]

\* SECTION_NAME: ^((?:\.?[\w-]+|\.?\*)*)$ : words, stars and dots, every dot
\* directly followed by a word character or a star
SECTION_NAME(s) ==
  /\ \A i \in 1..Len(s) : IsWord(s[i]) \/ s[i] = "*" \/ s[i] = "."
  /\ \A i \in 1..Len(s) : s[i] = "." => (i < Len(s) /\ s[i + 1] # ".")

\* KEY: ^([\w-]+(?:\.[\w-]+)*)$
KEY(s) ==
  LET parts == Split(s, ".")
  IN \A i \in 1..Len(parts) : parts[i] # <<>> /\ \A j \in 1..Len(parts[i]) : IsWord(parts[i][j])

\* PATH (parser.py): ^((?:\*|[\w-]+)(?:\.(?:[\w-]+|\*))*)$
PATH(s) ==
  LET parts == Split(s, ".")
  IN \A i \in 1..Len(parts) :
       \/ parts[i] = <<"*">>
       \/ parts[i] # <<>> /\ \A j \in 1..Len(parts[i]) : IsWord(parts[i][j])

\* VALUE: ^((?:[^\\]|\\\\|\\\s|\\'|\\\")*)(\\?)$ ; escapes are the characters a
\* backslash may precede (parser.py also allows n).  cont is group 2.
RECURSIVE VALUE_scan(_, _, _)
VALUE_scan(s, i, escapes) ==
  IF i > Len(s) THEN [match |-> TRUE, value |-> s, cont |-> FALSE]
  ELSE IF s[i] # "\\" THEN VALUE_scan(s, i + 1, escapes)
  ELSE IF i = Len(s) THEN [match |-> TRUE, value |-> SubSeq(s, 1, i - 1), cont |-> TRUE]
  ELSE IF s[i + 1] \in escapes THEN VALUE_scan(s, i + 2, escapes)
  ELSE [match |-> FALSE, value |-> <<>>, cont |-> FALSE]

ConfigEscapes == {"\\", " ", "'", "\""}

VALUE(s) == VALUE_scan(s, 1, ConfigEscapes)

\* ASSIGNMENT: ^([^?!=+^\s]*)\s*(=|!=|\?=|\+=|\^=)\s*(.*)(\\?)$ ; group 3 is
\* greedy, so group 4 is always empty and a trailing backslash stays in group 3
OpChars == {"?", "!", "=", "+", "^"}

RECURSIVE KeyEnd(_, _)
KeyEnd(s, i) ==
  IF i <= Len(s) /\ s[i] \notin OpChars /\ ~IsSpace(s[i]) THEN KeyEnd(s, i + 1) ELSE i

RECURSIVE SkipSpace(_, _)
SkipSpace(s, i) == IF i <= Len(s) /\ IsSpace(s[i]) THEN SkipSpace(s, i + 1) ELSE i

ASSIGNMENT(s) ==
  LET k == KeyEnd(s, 1)
      o == SkipSpace(s, k)
      none == [match |-> FALSE, key |-> <<>>, op |-> "", value |-> <<>>]
  IN IF o > Len(s) THEN none
     ELSE IF s[o] = "=" THEN
       [match |-> TRUE, key |-> SubSeq(s, 1, k - 1), op |-> "=",
        value |-> SubSeq(s, SkipSpace(s, o + 1), Len(s))]
     ELSE IF s[o] \in {"!", "?", "+", "^"} /\ o < Len(s) /\ s[o + 1] = "=" THEN
       [match |-> TRUE, key |-> SubSeq(s, 1, k - 1),
        op |-> CASE s[o] = "!" -> "!=" [] s[o] = "?" -> "?=" [] s[o] = "+" -> "+=" [] OTHER -> "^=",
        value |-> SubSeq(s, SkipSpace(s, o + 2), Len(s))]
     ELSE none

(***************************************************************************)
(* Python values and exceptions.                                           *)
(* A value is a str (items holds the one string), a list of str, or a      *)
(* Parser.Dict (section is its section attribute).                         *)
(***************************************************************************)
StrV(s) == [kind |-> "str", items |-> <<s>>, section |-> <<>>]
ListV(l) == [kind |-> "list", items |-> l, section |-> <<>>]
DictV(sec) == [kind |-> "dict", items |-> <<>>, section |-> sec]

\* an exception: its type and the parts of its message; ctx and line are the
\* "<ctx_id>:<line_number>: " prefix (ctx = "": no such prefix), chain the
\* " > "-joined ids a batch puts in front (batch: whether a batch wrapped it)
Exc(type, text, arg, prefix, index) ==
  [type |-> type, text |-> text, arg |-> arg, prefix |-> prefix, index |-> index,
   ctx |-> "", line |-> 0, chain |-> <<>>, batch |-> FALSE]

NoExc == Exc("none", "", <<>>, <<>>, 0)
ValueError == Exc("ValueError", "shlex", <<>>, <<>>, 0)
AssertionError == Exc("AssertionError", "", <<>>, <<>>, 0)
KeyError == Exc("KeyError", "", <<>>, <<>>, 0)
ParserError(text, arg) == Exc("Parser.Error", text, arg, <<>>, 0)

Raised(e) == e.type # "none"

(***************************************************************************)
(* The tree: a function from paths to values.  The root Parser.Dict is the *)
(* empty path; the Parser.Dict stored under key k of the dict at path p is *)
(* the path p \o <<k>>.                                                    *)
(***************************************************************************)
EmptyTree == [p \in {} |-> StrV(<<>>)]

IsPrefix(p, q) == Len(p) <= Len(q) /\ SubSeq(q, 1, Len(p)) = p

Has(d, p) == p \in DOMAIN d

IsDict(d, p) == p = <<>> \/ (Has(d, p) /\ d[p].kind = "dict")

HasValue(d, p) == Has(d, p) /\ d[p].kind # "dict"

\* dict.__setitem__ (super().__setitem__): the object stored before, with
\* everything below it, is no longer part of the tree
Put(d, p, v) ==
  [q \in {r \in DOMAIN d : ~IsPrefix(p, r)} \cup {p} |-> IF q = p THEN v ELSE d[q]]

\* the section attribute of the dict at path p
SectionOf(d, p) == IF p = <<>> THEN <<>> ELSE d[p].section

(***************************************************************************)
(* Parser.Dict of config.py.  Every operation returns the tree it leaves   *)
(* and the exception it raises (NoExc: none): an operation that raises may *)
(* already have changed the tree.                                          *)
(***************************************************************************)
\* the value normalisation without the strip of the tokens
ProcessValue_unstripped(parser, value) ==
  LET emptyAt(l) == Exc("Parser.Error", "Empty element at index", <<>>, <<>>,
                        FirstIndex(l, <<>>) - 1)
      checked(v) ==
        IF v.kind = "list" /\ ~parser.allow_empty_values
              /\ \E i \in 1..Len(v.items) : v.items[i] = <<>>
          THEN [exc |-> emptyAt(v.items), value |-> v]
          ELSE [exc |-> NoExc, value |-> v]
      collapsed(toks) == IF Len(toks) = 0 THEN StrV(<<>>)
                         ELSE IF Len(toks) = 1 THEN StrV(toks[1])
                         ELSE ListV(toks)
      nonempty(v) == IF v = StrV(<<>>) /\ ~parser.allow_empty_values
                       THEN [exc |-> ParserError("Empty value", <<>>), value |-> v]
                       ELSE checked(v)
      tokenized(sp) == IF ~sp.ok THEN [exc |-> ValueError, value |-> value]
                       ELSE nonempty(collapsed(sp.toks))
  IN CASE value.kind = "str" -> tokenized(shlex_split(Strip(value.items[1])))
       [] value.kind = "list" -> checked(ListV(value.items))
       [] OTHER -> [exc |-> NoExc, value |-> value]

\* the value normalisation at the head of __setitem__ and of assign: a str is
\* tokenized and collapses to '' (no token), the token (one) or a list
ProcessValue(parser, value) ==
  LET emptyAt(l) == Exc("Parser.Error", "Empty element at index", <<>>, <<>>,
                        FirstIndex(l, <<>>) - 1)
      checked(v) ==
        IF v.kind = "list" /\ ~parser.allow_empty_values
              /\ \E i \in 1..Len(v.items) : v.items[i] = <<>>
          THEN [exc |-> emptyAt(v.items), value |-> v]
          ELSE [exc |-> NoExc, value |-> v]
      stripped(l) == [i \in 1..Len(l) |-> Strip(l[i])]
      collapsed(toks) == IF Len(toks) = 0 THEN StrV(<<>>)
                         ELSE IF Len(toks) = 1 THEN StrV(toks[1])
                         ELSE ListV(toks)
      nonempty(v) == IF v = StrV(<<>>) /\ ~parser.allow_empty_values
                       THEN [exc |-> ParserError("Empty value", <<>>), value |-> v]
                       ELSE checked(v)
      tokenized(sp) == IF ~sp.ok THEN [exc |-> ValueError, value |-> value]
                       ELSE nonempty(collapsed(stripped(sp.toks)))
  IN CASE value.kind = "str" -> tokenized(shlex_split(Strip(value.items[1])))
       [] value.kind = "list" -> checked(ListV(stripped(value.items)))
       [] OTHER -> [exc |-> NoExc, value |-> value]

\* __getitem__ of the dict at path self: the path the key resolves to
RECURSIVE GetWalk(_, _, _, _)
GetWalk(d, cur, tokens, i) ==
  IF i > Len(tokens) THEN [exc |-> NoExc, path |-> cur]
  ELSE IF i > 1 /\ ~IsDict(d, cur) THEN [exc |-> KeyError, path |-> cur]
  ELSE IF ~Has(d, Append(cur, tokens[i])) THEN [exc |-> KeyError, path |-> cur]
  ELSE GetWalk(d, Append(cur, tokens[i]), tokens, i + 1)

Dict_getitem(parser, d, self, key) ==
  IF ~parser.nested_sections
    THEN IF Has(d, Append(self, key))
           THEN [exc |-> NoExc, path |-> Append(self, key)]
           ELSE [exc |-> KeyError, path |-> self]
    ELSE GetWalk(d, self, Split(key, "."), 1)

\* the loop of __setitem__ over the tokens before the last one; cur is the
\* path of the local d (isNone: d is None)
RECURSIVE SetWalk(_, _, _, _, _, _, _)
SetWalk(parser, d, self, tokens, i, cur, isNone) ==
  IF i > Len(tokens) - 1 THEN [d |-> d, exc |-> NoExc, cur |-> cur, isNone |-> isNone]
  ELSE
    LET token == Strip(tokens[i])
        stop(e) == [d |-> d, exc |-> e, cur |-> cur, isNone |-> isNone]
    IN IF ~(token # <<>> \/ (i = 1 /\ parser.enable_default_section)) THEN stop(AssertionError)
       ELSE IF ~isNone /\ ~IsDict(d, cur) THEN stop(KeyError)
       ELSE IF isNone THEN
         LET p == Append(self, token)
         IN IF Has(d, p) THEN SetWalk(parser, d, self, tokens, i + 1, p, FALSE)
            ELSE SetWalk(parser, Put(d, p, DictV(token)), self, tokens, i + 1, p, FALSE)
       ELSE
         LET p == Append(cur, token)
         IN IF Has(d, p) THEN SetWalk(parser, d, self, tokens, i + 1, p, FALSE)
            ELSE SetWalk(parser, Put(d, p, DictV(SectionOf(d, cur) \o <<".">> \o token)),
                         self, tokens, i + 1, p, FALSE)

\* __setitem__ of the dict at path self
RECURSIVE Dict_setitem(_, _, _, _, _)
Dict_setitem(parser, d, self, key0, value0) ==
  LET key == Strip(key0)
      tokens == Split(key, ".")
      \* pv: the value normalised; w: where the loop over the tokens ends
      store(pv, w) ==
        IF key = <<>> /\ ~(parser.enable_default_section /\ value0.kind = "dict")
          THEN [d |-> d, exc |-> AssertionError]
        ELSE IF Raised(pv.exc) THEN [d |-> d, exc |-> pv.exc]
        ELSE IF ~parser.nested_sections
          THEN [d |-> Put(d, Append(self, key), pv.value), exc |-> NoExc]
        ELSE IF Raised(w.exc) THEN [d |-> w.d, exc |-> w.exc]
        ELSE IF w.isNone THEN [d |-> Put(w.d, Append(self, key), pv.value), exc |-> NoExc]
        ELSE IF ~IsDict(w.d, w.cur) THEN [d |-> w.d, exc |-> KeyError]
        ELSE Dict_setitem(parser, w.d, w.cur, tokens[Len(tokens)], pv.value)
  IN store(ProcessValue(parser, value0), SetWalk(parser, d, self, tokens, 1, <<>>, TRUE))

\* the section-versus-value conflict of APPEND and UNION
\* the conflict raised without the name of the section
section_conflict_unnamed(v) == Exc("Parser.Error", "Cannot add a value to section", <<>>, <<>>, 0)

section_conflict(v) == Exc("Parser.Error", "Cannot add a value to section", v.section, <<>>, 0)

\* extend with the two lists swapped
extend_front(v, elements) == elements \o v

\* v.extend(elements)
extend(v, elements) == v \o elements

\* new_elements without the membership test
new_elements_all(v, value) == value

\* the elements of value that UNION appends to the list v
new_elements(v, value) == SelectSeq(value, LAMBDA e : \A i \in 1..Len(v) : v[i] # e)

\* assign_SET ignoring set_is_replace: always replaces
assign_SET_replace(parser, d, self, key, value) == Dict_setitem(parser, d, self, key, value)

\* assign_SET ignoring set_is_replace: always raises
assign_SET_strict(parser, d, self, key, value) ==
  IF d[Append(self, key)].kind = "dict"
    THEN [d |-> d, exc |-> Exc("Parser.Error", "Cannot replace section",
                               d[Append(self, key)].section, <<>>, 0)]
    ELSE [d |-> d, exc |-> Exc("Parser.Error", "Value already set for key",
                               key, SectionOf(d, self), 0)]

\* assign of the dict at path self, the key being present with entry v: SET
assign_SET(parser, d, self, key, value) ==
  LET v == d[Append(self, key)]
  IN IF ~parser.set_is_replace THEN
       IF v.kind = "dict"
         THEN [d |-> d, exc |-> Exc("Parser.Error", "Cannot replace section",
                                    v.section, <<>>, 0)]
         ELSE [d |-> d, exc |-> Exc("Parser.Error", "Value already set for key",
                                    key, SectionOf(d, self), 0)]
     ELSE Dict_setitem(parser, d, self, key, value)

\* ... REPLACE
assign_REPLACE(parser, d, self, key, value) == Dict_setitem(parser, d, self, key, value)

\* assign_FALLBACK storing the incoming value
assign_FALLBACK_store(parser, d, self, key, value) == Dict_setitem(parser, d, self, key, value)

\* ... FALLBACK
assign_FALLBACK(parser, d, self, key, value) == [d |-> d, exc |-> NoExc]

\* APPEND storing the list in the place of a section
assign_APPEND_over(parser, d, self, key, value) ==
  LET p == Append(self, key)
      v == d[p]
  IN IF v.kind = "dict" THEN [d |-> Put(d, p, ListV(value.items)), exc |-> NoExc]
     ELSE [d |-> Put(d, p, ListV(extend(v.items, value.items))), exc |-> NoExc]

\* ... APPEND
assign_APPEND(parser, d, self, key, value) ==
  LET p == Append(self, key)
      v == d[p]
  IN IF v.kind = "dict" THEN [d |-> d, exc |-> section_conflict(v)]
     ELSE [d |-> Put(d, p, ListV(extend(v.items, value.items))), exc |-> NoExc]

\* ... UNION
assign_UNION(parser, d, self, key, value) ==
  LET p == Append(self, key)
      v == d[p]
  IN IF v.kind = "dict" THEN [d |-> d, exc |-> section_conflict(v)]
     ELSE [d |-> Put(d, p, ListV(extend(v.items, new_elements(v.items, value.items)))),
           exc |-> NoExc]

\* assign of the dict at path self, the key being absent
assign_absent(parser, d, self, key, value, mode) ==
  Dict_setitem(parser, d, self, key,
               IF mode \in {"APPEND", "UNION"} THEN ListV(value.items) ELSE value)

\* assign looking at what the key holds before it looks at the value
Dict_assign_conflict_first(parser, d, self, key0, value0, mode) ==
  LET key == Strip(key0)
      assign(pv) ==
        IF Has(d, Append(self, key)) THEN
          CASE mode = "SET" -> assign_SET(parser, d, self, key, pv.value)
            [] mode = "REPLACE" -> assign_REPLACE(parser, d, self, key, pv.value)
            [] mode = "FALLBACK" -> assign_FALLBACK(parser, d, self, key, pv.value)
            [] mode = "APPEND" -> assign_APPEND(parser, d, self, key, pv.value)
            [] OTHER -> assign_UNION(parser, d, self, key, pv.value)
        ELSE IF Raised(pv.exc) THEN [d |-> d, exc |-> pv.exc]
        ELSE assign_absent(parser, d, self, key, pv.value, mode)
  IN assign(ProcessValue(parser, value0))

\* assign of the dict at path self
Dict_assign(parser, d, self, key0, value0, mode) ==
  LET key == Strip(key0)
      \* pv: the value normalised
      assign(pv) ==
        IF Raised(pv.exc) THEN [d |-> d, exc |-> pv.exc]
        ELSE IF Has(d, Append(self, key)) THEN
          CASE mode = "SET" -> assign_SET(parser, d, self, key, pv.value)
            [] mode = "REPLACE" -> assign_REPLACE(parser, d, self, key, pv.value)
            [] mode = "FALLBACK" -> assign_FALLBACK(parser, d, self, key, pv.value)
            [] mode = "APPEND" -> assign_APPEND(parser, d, self, key, pv.value)
            [] OTHER -> assign_UNION(parser, d, self, key, pv.value)
        ELSE assign_absent(parser, d, self, key, pv.value, mode)
  IN assign(ProcessValue(parser, value0))

(***************************************************************************)
(* Parser.Context of config.py.  A state st is [d, ctx, exc]: the tree,    *)
(* the fields of the context, and the exception being raised (NoExc:       *)
(* none).  A method that raises returns the state at the raise.            *)
(***************************************************************************)
NewContext(ctx_id) ==
  [ctx_id |-> ctx_id, line_number |-> 0, section |-> None, restore_section |-> None,
   key |-> None, value |-> None, assignment_mode |-> "None", continuation |-> FALSE]

Raise(st, e) == [st EXCEPT !.exc = e]

\* f"{ctx}: ..." : the message starts with <ctx_id>:<line_number>
At(ctx, e) == [e EXCEPT !.ctx = ctx.ctx_id, !.line = ctx.line_number]

\* AssignmentMode.from_str
from_str(op) ==
  CASE op = "=" -> "SET" [] op = "!=" -> "REPLACE" [] op = "?=" -> "FALLBACK"
    [] op = "+=" -> "APPEND" [] op = "^=" -> "UNION" [] OTHER -> "None"

\* __reset leaving the context in the section of the qualified key
Context_reset_staying(ctx) ==
  [ctx EXCEPT !.key = None, !.value = None, !.assignment_mode = "None",
              !.continuation = FALSE, !.restore_section = None]

Context_reset(ctx) ==
  [ctx EXCEPT !.key = None, !.value = None, !.assignment_mode = "None",
              !.continuation = FALSE,
              !.section = IF ctx.restore_section # None THEN ctx.restore_section ELSE @,
              !.restore_section = None]

\* the path at which __setitem__(section, <a dict>) of the root stores the dict
StoredAt(parser, section) ==
  IF parser.nested_sections
    THEN LET t == Split(Strip(section), ".") IN [i \in 1..Len(t) |-> Strip(t[i])]
    ELSE <<Strip(section)>>

Context_apply(parser, st) ==
  LET ctx == st.ctx
      \* the section dict: g is the lookup of ctx.section, made its creation
      section(g, made) ==
        IF Raised(g.exc)
          THEN [d |-> made.d, exc |-> made.exc, path |-> StoredAt(parser, ctx.section)]
        ELSE IF ~IsDict(st.d, g.path)
          THEN [d |-> st.d, exc |-> AssertionError, path |-> g.path]
        ELSE [d |-> st.d, exc |-> NoExc, path |-> g.path]
      \* s: the section dict; a: the assignment of the key in it
      assigned(s, a) ==
        IF Raised(s.exc) THEN [st EXCEPT !.d = s.d, !.exc = s.exc]
        ELSE IF ctx.key = None THEN [st EXCEPT !.d = s.d, !.ctx = Context_reset(ctx)]
        ELSE IF ctx.value = None \/ ctx.assignment_mode = "None" \/ ctx.continuation
          THEN [st EXCEPT !.d = s.d, !.exc = AssertionError]
        ELSE IF a.exc.type = "Parser.Error" THEN [st EXCEPT !.d = a.d, !.exc = At(ctx, a.exc)]
        ELSE IF Raised(a.exc) THEN [st EXCEPT !.d = a.d, !.exc = a.exc]
        ELSE [st EXCEPT !.d = a.d, !.ctx = Context_reset(ctx)]
      apply(s) ==
        assigned(s, Dict_assign(parser, s.d, s.path, ctx.key, StrV(ctx.value),
                                ctx.assignment_mode))
  IN IF ctx.section = None THEN Raise(st, AssertionError)
     ELSE IF ~(parser.enable_default_section \/ ctx.section # <<>>) THEN Raise(st, AssertionError)
     ELSE apply(section(Dict_getitem(parser, st.d, <<>>, ctx.section),
                        Dict_setitem(parser, st.d, <<>>, ctx.section, DictV(ctx.section))))

\* the setter of Context.section
\* the setter of Context.section without the test of enable_default_section
Context_section_default(parser, st, section) ==
  LET ctx == st.ctx
      g == Dict_getitem(parser, st.d, <<>>, section)
      st1 == [st EXCEPT !.ctx.section = section]
  IN IF ctx.restore_section # None \/ ctx.key # None \/ ctx.assignment_mode # "None"
          \/ ctx.value # None
       THEN Raise(st, AssertionError)
     ELSE IF Raised(g.exc) THEN Context_apply(parser, st1)
     ELSE IF IsDict(st.d, g.path) /\ ~parser.allow_section_split
       THEN Raise(st1, At(ctx, ParserError("Duplicate section", section)))
     ELSE IF ~IsDict(st.d, g.path)
       THEN Raise(st1, At(ctx, ParserError("Key is already assigned to a value", section)))
     ELSE st1

\* the setter of Context.section without the test of allow_section_split
Context_section_split(parser, st, section) ==
  LET ctx == st.ctx
      g == Dict_getitem(parser, st.d, <<>>, section)
      st1 == [st EXCEPT !.ctx.section = section]
  IN IF ctx.restore_section # None \/ ctx.key # None \/ ctx.assignment_mode # "None"
          \/ ctx.value # None
       THEN Raise(st, AssertionError)
     ELSE IF section = <<>> /\ ~parser.enable_default_section
       THEN Raise(st, At(ctx, ParserError("Default/Empty section not allowed", <<>>)))
     ELSE IF Raised(g.exc) THEN Context_apply(parser, st1)
     ELSE IF ~IsDict(st.d, g.path)
       THEN Raise(st1, At(ctx, ParserError("Key is already assigned to a value", section)))
     ELSE st1

\* the setter of Context.section leaving the section to be made by the first
\* assignment in it
Context_section_lazy(parser, st, section) ==
  LET ctx == st.ctx
      g == Dict_getitem(parser, st.d, <<>>, section)
      st1 == [st EXCEPT !.ctx.section = section]
  IN IF ctx.restore_section # None \/ ctx.key # None \/ ctx.assignment_mode # "None"
          \/ ctx.value # None
       THEN Raise(st, AssertionError)
     ELSE IF section = <<>> /\ ~parser.enable_default_section
       THEN Raise(st, At(ctx, ParserError("Default/Empty section not allowed", <<>>)))
     ELSE IF Raised(g.exc) THEN st1
     ELSE IF IsDict(st.d, g.path) /\ ~parser.allow_section_split
       THEN Raise(st1, At(ctx, ParserError("Duplicate section", section)))
     ELSE IF ~IsDict(st.d, g.path)
       THEN Raise(st1, At(ctx, ParserError("Key is already assigned to a value", section)))
     ELSE st1

\* the setter of Context.section
Context_section(parser, st, section) ==
  LET ctx == st.ctx
      g == Dict_getitem(parser, st.d, <<>>, section)
      st1 == [st EXCEPT !.ctx.section = section]
  IN IF ctx.restore_section # None \/ ctx.key # None \/ ctx.assignment_mode # "None"
          \/ ctx.value # None
       THEN Raise(st, AssertionError)
     ELSE IF section = <<>> /\ ~parser.enable_default_section
       THEN Raise(st, At(ctx, ParserError("Default/Empty section not allowed", <<>>)))
     ELSE IF Raised(g.exc) THEN Context_apply(parser, st1)
     ELSE IF IsDict(st.d, g.path) /\ ~parser.allow_section_split
       THEN Raise(st1, At(ctx, ParserError("Duplicate section", section)))
     ELSE IF ~IsDict(st.d, g.path)
       THEN Raise(st1, At(ctx, ParserError("Key is already assigned to a value", section)))
     ELSE st1

Context_assign(parser, st, key, value, mode, continues) ==
  LET ctx == st.ctx
      st1 == [st EXCEPT !.ctx.key = key, !.ctx.value = value,
                        !.ctx.assignment_mode = mode, !.ctx.continuation = continues]
  IN IF ctx.section = None \/ ctx.key # None \/ ctx.value # None
          \/ ctx.assignment_mode # "None" \/ ctx.continuation
       THEN Raise(st, AssertionError)
     ELSE IF ~continues THEN Context_apply(parser, st1)
     ELSE st1

Context_continue_assignment(parser, st, value0, continues) ==
  LET ctx == st.ctx
      value == Strip(value0)
      st1 == [st EXCEPT !.ctx.value = IF value # <<>> THEN ctx.value \o <<" ">> \o Strip(value)
                                                      ELSE @,
                        !.ctx.continuation = continues]
  IN IF ctx.key = None \/ ctx.value = None \/ ctx.assignment_mode = "None"
          \/ ~ctx.continuation
       THEN Raise(st, AssertionError)
     ELSE IF ~continues THEN Context_apply(parser, st1)
     ELSE st1

\* set_nested_section entering the section at the top of the tree
Context_set_nested_section_top(parser, st, section) ==
  LET ctx == st.ctx
      st1 == [st EXCEPT !.ctx.restore_section = ctx.section, !.ctx.section = section]
      g == Dict_getitem(parser, st.d, <<>>, section)
  IN IF section = <<>> \/ ctx.section = None \/ ctx.restore_section # None
       THEN Raise(st, AssertionError)
     ELSE IF ~Raised(g.exc) /\ ~IsDict(st.d, g.path)
       THEN Raise(st1, At(st1.ctx, ParserError("Key is already assigned to a value", section)))
     ELSE st1

Context_set_nested_section(parser, st, section) ==
  LET ctx == st.ctx
      full == ctx.section \o <<".">> \o section
      st1 == [st EXCEPT !.ctx.restore_section = ctx.section, !.ctx.section = full]
      g == Dict_getitem(parser, st.d, <<>>, full)
  IN IF section = <<>> \/ ctx.section = None \/ ctx.restore_section # None
       THEN Raise(st, AssertionError)
     ELSE IF ~Raised(g.exc) /\ ~IsDict(st.d, g.path)
       THEN Raise(st1, At(st1.ctx, ParserError("Key is already assigned to a value", full)))
     ELSE st1

(***************************************************************************)
(* Parser of config.py: the four line parsers and the body of the loop of  *)
(* __load.  A line parser returns whether it handled the line.             *)
(***************************************************************************)
Handled(st) == [handled |-> TRUE, st |-> st]
NotHandled(st) == [handled |-> FALSE, st |-> st]

Parser_parse_empty(parser, st, line) ==
  IF line # <<>> THEN NotHandled(st)
  ELSE IF st.ctx.key # None /\ st.ctx.key # <<>> THEN Handled(Context_apply(parser, st))
  ELSE Handled(st)

Parser_parse_continuation(parser, st, line) ==
  LET m == VALUE(line)
  IN IF ~st.ctx.continuation THEN NotHandled(st)
     ELSE IF ~m.match THEN Handled(Raise(st, At(st.ctx, ParserError("Malformed value", <<>>))))
     ELSE Handled(Context_continue_assignment(parser, st, Strip(m.value), m.cont))

Parser_parse_section(parser, st, line) ==
  LET m == SECTION(line)
      name == m.name
  IN IF ~m.match THEN NotHandled(st)
     ELSE IF ~SECTION_NAME(name)
             \/ (name # <<>> /\ name[1] = "." /\ ~parser.enable_default_section
                 /\ ~parser.nested_sections)
       THEN Handled(Raise(st, At(st.ctx, ParserError("Invalid section name", name))))
     ELSE Handled(Context_section(parser, st, name))

Parser_parse_assignment(parser, st, line) ==
  LET m == ASSIGNMENT(line)
      mode == from_str(m.op)
      tokens == Split(m.key, ".")
      nested == Contains(m.key, ".") /\ parser.nested_sections
      key == IF nested THEN tokens[Len(tokens)] ELSE m.key
      v == VALUE(m.value)
      \* st2: the state once the section of a dotted key is entered
      valued(st2) ==
        IF Raised(st2.exc) THEN Handled(st2)
        ELSE IF ~v.match
          THEN Handled(Raise(st2, At(st2.ctx, ParserError("Malformed value", <<>>))))
        ELSE Handled(Context_assign(parser, st2, key, Strip(v.value), mode, v.cont))
      \* st1: the state once a section is open
      keyed(st1) ==
        IF Raised(st1.exc) THEN Handled(st1)
        ELSE IF mode = "None"
          THEN Handled(Raise(st1, ParserError("Unknown assignment operator", <<>>)))
        ELSE IF ~KEY(m.key)
          THEN Handled(Raise(st1, At(st1.ctx, ParserError("Invalid key", m.key))))
        ELSE valued(IF nested
                      THEN Context_set_nested_section(parser, st1,
                             Join(SubSeq(tokens, 1, Len(tokens) - 1), <<".">>))
                      ELSE st1)
  IN IF ~m.match THEN NotHandled(st)
     ELSE IF st.ctx.section = None /\ ~parser.enable_default_section
       THEN Handled(Raise(st, At(st.ctx, ParserError("Expected a section", <<>>))))
     \* an assignment before any header opens the default section
     ELSE keyed(IF st.ctx.section = None
                  THEN Parser_parse_section(parser, st, <<"[", "]">>).st
                  ELSE st)

\* one iteration of the loop of __load
Parser_load_line(parser, st0, raw) ==
  LET st == [st0 EXCEPT !.ctx.line_number = @ + 1]
      line == Strip(LINE(raw))
      \* what the four line parsers return, tried in this order
      first(e, c, a, h) ==
        IF e.handled THEN e.st
        ELSE IF c.handled THEN c.st
        ELSE IF a.handled THEN a.st
        ELSE IF h.handled THEN h.st
        ELSE Raise(st, At(st.ctx, ParserError("Malformed line", <<>>)))
  IN first(Parser_parse_empty(parser, st, line),
           Parser_parse_continuation(parser, st, line),
           Parser_parse_assignment(parser, st, line),
           Parser_parse_section(parser, st, line))

\* the end of __load: the input is exhausted
Parser_load_end(parser, st) ==
  IF st.ctx.continuation THEN Context_apply(parser, st) ELSE st

(***************************************************************************)
(* Config, the tree of parser.py and context.py.  The class is not part of *)
(* the sources: it is modelled from its description (sections 3 and 4.2 of *)
(* the specification) and from the calls made on it.  The root is the path *)
(* <<>>; a section is a DictV, whose section field is not used.            *)
(***************************************************************************)
PathError(text, arg) == Exc("PathError", text, arg, <<>>, 0)
AssignmentError(text, arg) == Exc("AssignmentError", text, arg, <<>>, 0)
ContextError(text, arg) == Exc("ContextError", text, arg, <<>>, 0)
ParsingError(text, arg) == Exc("ParsingError", text, arg, <<>>, 0)

\* Error and its subclasses (error.py)
IsError(e) == e.type \in {"PathError", "AssignmentError", "ContextError", "ParsingError"}
IsContextError(e) == e.type \in {"ContextError", "ParsingError"}

\* the tree with the sections of the proper prefixes of segs that are missing
RECURSIVE Config_create(_, _, _)
Config_create(d, segs, i) ==
  IF i >= Len(segs) THEN d
  ELSE LET p == SubSeq(segs, 1, i)
       IN Config_create(IF Has(d, p) THEN d ELSE Put(d, p, DictV(<<>>)), segs, i + 1)

\* get(path, create_intermediate=True): [d, exc, found, path]
Config_get(d, path) ==
  LET segs == Split(path, ".")
      none == [d |-> d, exc |-> NoExc, found |-> FALSE, path |-> segs]
  IN IF path = <<>> \/ \E i \in 1..Len(segs) : segs[i] = <<>>
       THEN [none EXCEPT !.exc = PathError("Empty path segment", path)]
     ELSE IF \E i \in 1..(Len(segs) - 1) : HasValue(d, SubSeq(segs, 1, i))
       THEN [none EXCEPT !.exc = PathError("Path descends through a value", path)]
     ELSE [none EXCEPT !.d = Config_create(d, segs, 1), !.found = Has(d, segs)]

\* the explosion of a value text: no token, one token, several tokens
Config_explode(value) ==
  LET toks == shlex_split(value).toks
  IN IF Len(toks) = 0 THEN StrV(<<>>)
     ELSE IF Len(toks) = 1 THEN StrV(toks[1])
     ELSE ListV(toks)

\* UNION: v followed by the elements of value not yet present, each once
RECURSIVE Config_union(_, _)
Config_union(v, value) ==
  IF value = <<>> THEN v
  ELSE Config_union(IF \E i \in 1..Len(v) : v[i] = Head(value) THEN v
                    ELSE Append(v, Head(value)),
                    Tail(value))

\* assign(path, value, mode, explode_value=True): [d, exc]
Config_assign(d, path, value0, mode) ==
  LET conflict == [d |-> d, exc |-> AssignmentError("Section and value conflict", path)]
      \* g: the lookup of the path; value: the value exploded
      assign(g, value) ==
        IF Raised(g.exc) THEN [d |-> d, exc |-> g.exc]
        ELSE IF ~shlex_split(value0).ok THEN [d |-> d, exc |-> ValueError]
        ELSE IF ~g.found THEN
          [d |-> Put(g.d, g.path,
                     IF mode \in {"APPEND", "UNION"} THEN ListV(value.items) ELSE value),
           exc |-> NoExc]
        ELSE IF g.d[g.path].kind = "dict" /\ mode \in {"SET", "APPEND", "UNION"} THEN conflict
        ELSE CASE mode = "SET" ->
                    [d |-> d, exc |-> AssignmentError("Path is already assigned", path)]
               [] mode = "REPLACE" -> [d |-> Put(g.d, g.path, value), exc |-> NoExc]
               [] mode = "FALLBACK" -> [d |-> g.d, exc |-> NoExc]
               [] mode = "APPEND" ->
                    [d |-> Put(g.d, g.path, ListV(g.d[g.path].items \o value.items)),
                     exc |-> NoExc]
               [] OTHER ->
                    [d |-> Put(g.d, g.path,
                               ListV(Config_union(g.d[g.path].items, value.items))),
                     exc |-> NoExc]
  IN assign(Config_get(d, path), Config_explode(value0))

(***************************************************************************)
(* Context of context.py.  Its fields are kept in the record of            *)
(* NewContext: key is the path; restore_section is not used.               *)
(***************************************************************************)
ContextPy_init(ctx_id) == [NewContext(ctx_id) EXCEPT !.section = <<>>]

\* __reset leaving the mode of the assignment
ContextPy_reset_but_mode(ctx) ==
  [ctx EXCEPT !.key = None, !.value = None, !.continuation = FALSE]

ContextPy_reset(ctx) ==
  [ctx EXCEPT !.key = None, !.value = None, !.assignment_mode = "None",
              !.continuation = FALSE]

\* what __assert raises
InvalidState == ContextError("Invalid state", <<>>)

\* the setter of Context.section starting the section anew when it exists
ContextPy_section_anew(st, path) ==
  LET enter(g) ==
        IF Raised(g.exc) THEN [st EXCEPT !.d = g.d, !.exc = g.exc]
        ELSE [st EXCEPT !.d = Put(g.d, g.path, DictV(<<>>)), !.ctx.section = path]
  IN IF path = <<>> THEN [st EXCEPT !.ctx.section = <<>>]
     ELSE enter(Config_get(st.d, path))

\* the setter of Context.section
ContextPy_section(st, path) ==
  LET \* g: the lookup of the path
      enter(g) ==
        IF Raised(g.exc) THEN [st EXCEPT !.d = g.d, !.exc = g.exc]
        ELSE IF ~g.found \/ IsDict(g.d, g.path)
          THEN [st EXCEPT !.d = g.d, !.ctx.section = path]
        ELSE [st EXCEPT !.d = g.d, !.exc = ContextError("Path is already assigned", path)]
  IN IF path = <<>> THEN [st EXCEPT !.ctx.section = <<>>]
     ELSE enter(Config_get(st.d, path))

\* apply resetting the context also when the assignment in the Config fails
ContextPy_apply_resetting(st) ==
  LET ctx == st.ctx
      prefix == IF ctx.section = <<>> THEN <<>> ELSE ctx.section \o <<".">>
      assigned(a) ==
        IF IsError(a.exc)
          THEN [st EXCEPT !.d = a.d, !.ctx = ContextPy_reset(ctx),
                          !.exc = At(ctx, [a.exc EXCEPT !.type = "ContextError"])]
        ELSE IF Raised(a.exc)
          THEN [st EXCEPT !.d = a.d, !.ctx = ContextPy_reset(ctx), !.exc = a.exc]
        ELSE [st EXCEPT !.d = a.d, !.ctx = ContextPy_reset(ctx)]
  IN IF ctx.key = None \/ ctx.value = None \/ ctx.assignment_mode = "None"
       THEN Raise(st, InvalidState)
     ELSE assigned(Config_assign(st.d, prefix \o ctx.key, ctx.value, ctx.assignment_mode))

ContextPy_apply(st) ==
  LET ctx == st.ctx
      prefix == IF ctx.section = <<>> THEN <<>> ELSE ctx.section \o <<".">>
      \* a: the assignment in the Config
      assigned(a) ==
        IF IsError(a.exc)
          THEN [st EXCEPT !.d = a.d, !.exc = At(ctx, [a.exc EXCEPT !.type = "ContextError"])]
        ELSE IF Raised(a.exc) THEN [st EXCEPT !.d = a.d, !.exc = a.exc]
        ELSE [st EXCEPT !.d = a.d, !.ctx = ContextPy_reset(ctx)]
  IN IF ctx.key = None \/ ctx.value = None \/ ctx.assignment_mode = "None"
       THEN Raise(st, InvalidState)
     ELSE assigned(Config_assign(st.d, prefix \o ctx.key, ctx.value, ctx.assignment_mode))

\* assign taking the place of the assignment the context holds
ContextPy_assign_over(st, path, value, mode, continues) ==
  LET st1 == [st EXCEPT !.ctx.key = path, !.ctx.value = value,
                        !.ctx.assignment_mode = mode, !.ctx.continuation = continues]
  IN IF ~continues THEN ContextPy_apply(st1) ELSE st1

\* assign applying the assignment whether it continues or not
ContextPy_assign_eager(st, path, value, mode, continues) ==
  LET ctx == st.ctx
      st1 == [st EXCEPT !.ctx.key = path, !.ctx.value = value,
                        !.ctx.assignment_mode = mode, !.ctx.continuation = continues]
  IN IF ctx.key # None \/ ctx.value # None \/ ctx.assignment_mode # "None"
          \/ ctx.continuation
       THEN Raise(st, InvalidState)
     ELSE ContextPy_apply(st1)

ContextPy_assign(st, path, value, mode, continues) ==
  LET ctx == st.ctx
      st1 == [st EXCEPT !.ctx.key = path, !.ctx.value = value,
                        !.ctx.assignment_mode = mode, !.ctx.continuation = continues]
  IN IF ctx.key # None \/ ctx.value # None \/ ctx.assignment_mode # "None"
          \/ ctx.continuation
       THEN Raise(st, InvalidState)
     ELSE IF ~continues THEN ContextPy_apply(st1)
     ELSE st1

\* continue_assignment without the separating space
ContextPy_continue_glued(st, value0, continues) ==
  LET ctx == st.ctx
      st1 == [st EXCEPT !.ctx.value = ctx.value \o Strip(value0),
                        !.ctx.continuation = continues]
  IN IF ctx.key = None \/ ctx.value = None \/ ctx.assignment_mode = "None"
          \/ ~ctx.continuation
       THEN Raise(st, InvalidState)
     ELSE IF ~continues THEN ContextPy_apply(st1)
     ELSE st1

ContextPy_continue_assignment(st, value0, continues) ==
  LET ctx == st.ctx
      value == Strip(value0)
      st1 == [st EXCEPT !.ctx.value = IF value # <<>> THEN ctx.value \o <<" ">> \o Strip(value)
                                                      ELSE @,
                        !.ctx.continuation = continues]
  IN IF ctx.key = None \/ ctx.value = None \/ ctx.assignment_mode = "None"
          \/ ~ctx.continuation
       THEN Raise(st, InvalidState)
     ELSE IF ~continues THEN ContextPy_apply(st1)
     ELSE st1

(***************************************************************************)
(* Parser of parser.py.  Its only option is set_is_replace.                *)
(***************************************************************************)
ParserEscapes == ConfigEscapes \cup {"n"}

\* VALUE of parser.py
VALUE_py(s) == VALUE_scan(s, 1, ParserEscapes)

\* raise ParsingError(str(ex)) for a ContextError ex
AsParsingError(st) ==
  IF IsContextError(st.exc) THEN [st EXCEPT !.exc.type = "ParsingError"] ELSE st

\* __parse_empty passing over an empty line without committing
ParserPy_parse_empty_passing(st, line) ==
  IF line # <<>> THEN NotHandled(st) ELSE Handled(st)

ParserPy_parse_empty(st, line) ==
  IF line # <<>> THEN NotHandled(st)
  ELSE IF st.ctx.continuation THEN Handled(ContextPy_apply(st))
  ELSE Handled(st)

\* __parse_continuation leaving a line that reads as a header to the parser of
\* headers
ParserPy_parse_continuation_but_headers(st, line) ==
  LET m == VALUE_py(line)
  IN IF ~st.ctx.continuation \/ SECTION(line).match THEN NotHandled(st)
     ELSE IF ~m.match THEN Handled(Raise(st, At(st.ctx, ParsingError("Malformed value", <<>>))))
     ELSE Handled(AsParsingError(ContextPy_continue_assignment(st, Strip(m.value), m.cont)))

ParserPy_parse_continuation(st, line) ==
  LET m == VALUE_py(line)
  IN IF ~st.ctx.continuation THEN NotHandled(st)
     ELSE IF ~m.match THEN Handled(Raise(st, At(st.ctx, ParsingError("Malformed value", <<>>))))
     ELSE Handled(AsParsingError(ContextPy_continue_assignment(st, Strip(m.value), m.cont)))

\* the mode __parse_assignment hands to the context
ParserPy_mode(parser, op) ==
  IF from_str(op) = "SET" /\ parser.set_is_replace THEN "REPLACE" ELSE from_str(op)

ParserPy_parse_assignment(parser, st, line) ==
  LET m == ASSIGNMENT(line)
      v == VALUE_py(m.value)
  IN IF ~m.match THEN NotHandled(st)
     ELSE IF from_str(m.op) = "None"
       THEN Handled(Raise(st, At(st.ctx, ParsingError("Unknown assignment operator", <<>>))))
     ELSE IF ~PATH(m.key)
       THEN Handled(Raise(st, At(st.ctx, ParsingError("Invalid path", m.key))))
     ELSE IF ~v.match
       THEN Handled(Raise(st, At(st.ctx, ParsingError("Malformed value", <<>>))))
     ELSE Handled(ContextPy_assign(st, m.key, Strip(v.value), ParserPy_mode(parser, m.op),
                                   v.cont))

ParserPy_parse_section(st, line) ==
  LET m == SECTION(line)
      path == m.name
      \* g: the lookup of the path, which creates it
      got(g) ==
        IF Raised(g.exc) THEN [st EXCEPT !.d = g.d, !.exc = g.exc]
        ELSE IF g.found /\ ~IsDict(g.d, g.path)
          THEN [st EXCEPT !.d = g.d,
                          !.exc = At(st.ctx, ParsingError("Path is already assigned", path))]
        ELSE ContextPy_section([st EXCEPT !.d = g.d], path)
  IN IF ~m.match THEN NotHandled(st)
     ELSE IF path = <<>> THEN Handled(ContextPy_section(st, path))
     ELSE IF ~PATH(path)
       THEN Handled(Raise(st, At(st.ctx, ParsingError("Invalid path", path))))
     ELSE Handled(got(Config_get(st.d, path)))

\* one iteration of the loop of __load, inside its try
ParserPy_load_line(parser, st0, raw) ==
  LET st == [st0 EXCEPT !.ctx.line_number = @ + 1]
      line == Strip(LINE(raw))
      \* what the four line parsers return, tried in this order
      first(e, c, a, h) ==
        IF e.handled THEN e.st
        ELSE IF c.handled THEN c.st
        ELSE IF a.handled THEN a.st
        ELSE IF h.handled THEN h.st
        ELSE Raise(st, At(st.ctx, ParsingError("Malformed line", <<>>)))
  IN AsParsingError(first(ParserPy_parse_empty(st, line),
                          ParserPy_parse_continuation(st, line),
                          ParserPy_parse_assignment(parser, st, line),
                          ParserPy_parse_section(st, line)))

\* the end of __load: the input is exhausted
ParserPy_load_end(st) ==
  AsParsingError(IF st.ctx.continuation THEN ContextPy_apply(st) ELSE st)

(***************************************************************************)
(* The state of a run of Parser.batch_load_str, of config.py or parser.py. *)
(***************************************************************************)
VARIABLES
  parser,    \* the Parser: the module of its class (impl) and its options
  strings,   \* the strings given to batch_load_str (<<>>: lines are read freely)
  result,    \* the tree: result of __load
  ctx,       \* the Context of the source being parsed
  pc,        \* "start", "loop" (in the loop of __load), "returned", "raised"
  exc,       \* the exception the call raised (NoExc: none)
  ctx_ids,   \* batch_load_str: the ids of the sources parsed so far
  line,      \* the line read last (None: none yet in this source)
  repeat,    \* the line read last is the text of the line read just before it
  wrapped,   \* the dict a ReadOnlyDict wraps (no ReadOnlyDict: the empty dict)
  own,       \* the items a ReadOnlyDict holds itself, as the dict it inherits
             \* from: <<key, value>> pairs in the order of insertion
  call       \* the last call made on an object directly (NoCall: none)

vars == <<parser, strings, result, ctx, pc, exc, ctx_ids, line, repeat, wrapped, own, call>>

\* a call of op with the arguments args, what it returned and what it raised
Call(op, args, ret, e) == [op |-> op, args |-> args, ret |-> ret, exc |-> e]

NoCall == Call("none", <<>>, None, NoExc)

\* {}
EmptyDict == [k \in {} |-> 0]

\* Parser(...) of config.py
ParserOptions(eds, ass, sir, aev, ns) ==
  [impl |-> "config.py",
   enable_default_section |-> eds, allow_section_split |-> ass, set_is_replace |-> sir,
   allow_empty_values |-> aev, nested_sections |-> ns]

\* Parser(set_is_replace) of parser.py; it has no other option: the other
\* fields say what it always does
ParserPyOptions(sir) ==
  [impl |-> "parser.py",
   enable_default_section |-> TRUE, allow_section_split |-> TRUE, set_is_replace |-> sir,
   allow_empty_values |-> TRUE, nested_sections |-> TRUE]

\* Context(ctx_id, ...) as __load makes it
load_context(prs, ctx_id) ==
  IF prs.impl = "parser.py" THEN ContextPy_init(ctx_id) ELSE NewContext(ctx_id)

\* one iteration of the loop of __load
load_line(prs, st, raw) ==
  IF prs.impl = "parser.py" THEN ParserPy_load_line(prs, st, raw)
  ELSE Parser_load_line(prs, st, raw)

\* the end of __load
load_end(prs, st) ==
  IF prs.impl = "parser.py" THEN ParserPy_load_end(st) ELSE Parser_load_end(prs, st)

\* f'{ctx_id_prefix}{counter}'
CtxId(counter) == CASE counter = 1 -> "str#1" [] counter = 2 -> "str#2"
                    [] counter = 3 -> "str#3" [] OTHER -> "str#4"

\* Parser.Dict(self, d=d) keeping no entry of d
Dict_init_empty(d) == EmptyTree

\* Parser.Dict(self, d=d): a new dict with the entries of d
Dict_init(d) == d

\* the tree __load works on, given the tree d: config.py makes a Parser.Dict
\* of it, parser.py takes it as it is
load_tree(prs, d) == IF prs.impl = "parser.py" THEN d ELSE Dict_init(d)

\* the loop of __load over the lines of a string, and its end
RECURSIVE load_loop(_, _, _)
load_loop(prs, st, lines) ==
  IF Raised(st.exc) THEN st
  ELSE IF lines = <<>> THEN load_end(prs, st)
  ELSE load_loop(prs, load_line(prs, st, Head(lines)), Tail(lines))

\* load_str(s, d, ctx_id): [d, ctx, exc]
load_str(prs, lines, d, ctx_id) ==
  load_loop(prs, [d |-> load_tree(prs, d), ctx |-> load_context(prs, ctx_id), exc |-> NoExc],
            lines)

\* batch_load_str: what the except clause raises for the exception e
batch_raise(prs, e, ids) ==
  IF prs.impl = "parser.py"
    THEN IF IsError(e) THEN [e EXCEPT !.type = "ParsingError", !.chain = ids, !.batch = TRUE]
         ELSE e
    ELSE IF e.type = "Parser.Error" THEN [e EXCEPT !.chain = ids, !.batch = TRUE] ELSE e

\* ' > '.join(ids), as the sequence of its parts
join_ids(ids) ==
  [i \in 1..(2 * Len(ids) - 1) |-> IF i % 2 = 1 THEN ids[(i + 1) \div 2] ELSE " > "]

\* the message of the exception e up to the colon before its line number:
\* f"{' > '.join(ctx_ids)} > {str(ex)}" for the one a batch raises, where
\* str(ex) starts with the id of the context
message_head(e) ==
  IF e.batch THEN join_ids(e.chain) \o <<" > ", e.ctx>> ELSE <<e.ctx>>

Start(options, inputs) ==
  /\ parser \in options
  /\ strings \in inputs
  /\ result = EmptyTree
  /\ ctx = NewContext("")
  /\ pc = "start"
  /\ exc = NoExc
  /\ ctx_ids = <<>>
  /\ line = None
  /\ repeat = FALSE
  /\ wrapped = EmptyDict
  /\ own = <<>>
  /\ call = NoCall

\* the next string of the batch is handed to load_str, which goes on with the
\* context of the string before it
StartSource_keeping(maxSources) ==
  /\ pc \in {"start", "returned"}
  /\ Len(ctx_ids) < maxSources
  /\ result' = load_tree(parser, result)
  /\ ctx' = IF pc = "start" THEN load_context(parser, CtxId(Len(ctx_ids) + 1))
            ELSE [ctx EXCEPT !.ctx_id = CtxId(Len(ctx_ids) + 1)]
  /\ pc' = "loop"
  /\ line' = None
  /\ repeat' = FALSE
  /\ UNCHANGED <<parser, strings, exc, ctx_ids, wrapped, own, call>>

\* the next string of the batch is handed to load_str
StartSource(maxSources) ==
  /\ pc \in {"start", "returned"}
  /\ Len(ctx_ids) < maxSources
  /\ result' = load_tree(parser, result)
  /\ ctx' = load_context(parser, CtxId(Len(ctx_ids) + 1))
  /\ pc' = "loop"
  /\ line' = None
  /\ repeat' = FALSE
  /\ UNCHANGED <<parser, strings, exc, ctx_ids, wrapped, own, call>>

\* what the state [d, ctx, exc] a step of __load ends in does to the run
Outcome(st, done) ==
  /\ result' = st.d
  /\ ctx' = st.ctx
  /\ exc' = batch_raise(parser, st.exc, ctx_ids)
  /\ pc' = IF Raised(st.exc) THEN "raised" ELSE IF done THEN "returned" ELSE "loop"
  /\ ctx_ids' = IF done /\ ~Raised(st.exc) THEN Append(ctx_ids, ctx.ctx_id) ELSE ctx_ids
  /\ UNCHANGED <<parser, strings, wrapped, own, call>>

Fits(st) ==
  \A p \in DOMAIN st.d : Len(st.d[p].items) <= MaxList

\* the loop of __load reads the line raw
ReadLine(raw, maxLines) ==
  /\ pc = "loop"
  /\ ctx.line_number < maxLines
  /\ \E st \in {load_line(parser, [d |-> result, ctx |-> ctx, exc |-> NoExc], raw)} :
       /\ Fits(st)
       /\ Outcome(st, FALSE)
  /\ line' = raw
  /\ repeat' = (raw = line)

\* the input of the source is exhausted
EndOfInput ==
  /\ pc = "loop"
  /\ Outcome(load_end(parser, [d |-> result, ctx |-> ctx, exc |-> NoExc]), TRUE)
  /\ UNCHANGED <<line, repeat>>

\* the string batch_load_str is parsing
Current == strings[Len(ctx_ids) + 1]

\* batch_load_str hands its next string to load_str
NextString == StartSource(Len(strings))

\* the loop of __load reads the next line of the string
NextLine ==
  /\ pc = "loop"
  /\ ctx.line_number < Len(Current)
  /\ ReadLine(Current[ctx.line_number + 1], Len(Current))

\* the loop of __load finds the string exhausted
Exhausted ==
  /\ pc = "loop"
  /\ ctx.line_number = Len(Current)
  /\ EndOfInput

\* the strings of at most maxLines lines drawn from lines
RECURSIVE StringsUpTo(_, _)
StringsUpTo(lines, maxLines) ==
  IF maxLines = 0 THEN {<<>>}
  ELSE LET shorter == StringsUpTo(lines, maxLines - 1)
       IN shorter \cup {Append(s, l) : s \in shorter, l \in lines}

(***************************************************************************)
(* Input lines.                                                            *)
(***************************************************************************)
Sp == <<" ">>
AssignLine(key, op, value) == key \o Sp \o op \o Sp \o value
Header(name) == <<"[">> \o name \o <<"]">>

Ops == {<<"=">>, <<"!", "=">>, <<"?", "=">>, <<"+", "=">>, <<"^", "=">>}

(***************************************************************************)
(* SpecAlgebra: the assignment modes.  One source; the keys x and x.k in   *)
(* the default section: with nested sections x.k makes x a section.        *)
(***************************************************************************)
AlgebraOptions ==
  {ParserOptions(TRUE, TRUE, sir, aev, ns) : sir \in BOOLEAN, aev \in BOOLEAN, ns \in BOOLEAN}

AlgebraKeys == {<<"x">>, <<"x", ".", "k">>}

AlgebraValues ==
  {<<"a">>, <<"b", " ", "a", " ", "b">>, <<"'", "a", " ", "b", "'">>, <<>>}

AlgebraLines ==
  {AssignLine(k, o, v) : k \in AlgebraKeys, o \in Ops, v \in AlgebraValues}

InitAlgebra == Start(AlgebraOptions, {<<>>})

NextAlgebra ==
  \/ StartSource(1)
  \/ \E raw \in AlgebraLines : ReadLine(raw, MaxLines)
  \/ EndOfInput

SpecAlgebra == InitAlgebra /\ [][NextAlgebra]_vars


(***************************************************************************)
(* Properties of the assignment modes (SpecAlgebra).  A step that reads a  *)
(* line is described by the line, the tree before (result) and the tree    *)
(* after (result').                                                        *)
(***************************************************************************)
OpSET == <<"=">>
OpREPLACE == <<"!", "=">>
OpFALLBACK == <<"?", "=">>
OpAPPEND == <<"+", "=">>
OpUNION == <<"^", "=">>

\* the tokens of a value text
Tokens(value) == shlex_split(value).toks

\* the elements a value text brings: its tokens, or the empty string when it
\* has no token
Elements(value) == IF Tokens(value) = <<>> THEN << <<>> >> ELSE Tokens(value)

\* what a value text is as a scalar or list: no token, one token, several
Stored(value) ==
  IF Len(Tokens(value)) <= 1 THEN StrV(Elements(value)[1]) ELSE ListV(Tokens(value))

\* the place in the tree of a key written in the default section
KeyPath(key) ==
  IF parser.nested_sections THEN << <<>> >> \o Split(key, ".") ELSE << <<>>, key >>

\* the step reads the line raw
Reads(raw) == pc = "loop" /\ ctx'.line_number = ctx.line_number + 1 /\ line' = raw

\* the line read was accepted
Accepted == pc' = "loop" /\ exc' = NoExc

\* the value text is not rejected for being empty
Acceptable(value) == Tokens(value) # <<>> \/ parser.allow_empty_values

\* the entry at p is v
Holds(d, p, v) == Has(d, p) /\ d[p] = v

\* the outcome of the step is the outcome of reading the line raw instead
SameAsReading(raw) ==
  LET st == load_line(parser, [d |-> result, ctx |-> ctx, exc |-> NoExc], raw)
  IN /\ result' = st.d
     /\ exc' = batch_raise(parser, st.exc, ctx_ids)
     /\ pc' = IF Raised(st.exc) THEN "raised" ELSE "loop"

\* E followed by the elements of T that are not in it, each once, in the
\* order of their first occurrence in T
RECURSIVE AppendNew(_, _)
AppendNew(E, T) ==
  IF T = <<>> THEN E
  ELSE AppendNew(IF \E i \in 1..Len(E) : E[i] = Head(T) THEN E ELSE Append(E, Head(T)),
                 Tail(T))

\* C1 as stated: APPEND on a key that holds a scalar or a list with elements
\* E, with a value that tokenizes to T, leaves the key holding the list
\* E ++ T.
C1_AppendTokens ==
  [][\A k \in AlgebraKeys, v \in AlgebraValues :
       (Reads(AssignLine(k, OpAPPEND, v)) /\ HasValue(result, KeyPath(k)) /\ Acceptable(v))
         => /\ Accepted
            /\ result' = [result EXCEPT ![KeyPath(k)] = ListV(@.items \o Tokens(v))]]_vars

\* C1 (amended): APPEND on a key that holds a scalar or a list with elements
\* E leaves the key holding the list E ++ T, where T is the tokens of the
\* value in their order, duplicates kept, or the one element '' when the
\* value has no token; nothing else in the tree changes.
C1_AppendElements ==
  [][\A k \in AlgebraKeys, v \in AlgebraValues :
       (Reads(AssignLine(k, OpAPPEND, v)) /\ HasValue(result, KeyPath(k)) /\ Acceptable(v))
         => /\ Accepted
            /\ result' = [result EXCEPT ![KeyPath(k)] = ListV(@.items \o Elements(v))]]_vars

\* x += b a b was read and x holds [a, b, a, b]
C1_Witness ==
  /\ pc = "loop"
  /\ line = AssignLine(<<"x">>, OpAPPEND, <<"b", " ", "a", " ", "b">>)
  /\ Holds(result, KeyPath(<<"x">>), ListV(<< <<"a">>, <<"b">>, <<"a">>, <<"b">> >>))

\* C2: UNION on a key that holds a scalar or a list with elements E leaves
\* the key holding E followed by the incoming elements that are not in E,
\* each appended once, in the order of their first occurrence.
C2_UnionAppendsOnce ==
  [][\A k \in AlgebraKeys, v \in AlgebraValues :
       (Reads(AssignLine(k, OpUNION, v)) /\ HasValue(result, KeyPath(k)) /\ Acceptable(v))
         => /\ Accepted
            /\ result' = [result EXCEPT
                            ![KeyPath(k)] = ListV(AppendNew(@.items, Elements(v)))]]_vars

\* C3: reading the same k ^= value line again right after it was accepted is
\* accepted and leaves the tree as the first reading left it.
C3_UnionIdempotent ==
  [][\A k \in AlgebraKeys, v \in AlgebraValues :
       (Reads(AssignLine(k, OpUNION, v)) /\ line = AssignLine(k, OpUNION, v))
         => (Accepted /\ result' = result)]_vars

\* x ^= b a b was read twice in a row; x, absent at first, holds [b, a, b]
C3_Witness ==
  /\ pc = "loop"
  /\ repeat
  /\ ctx.line_number = 2
  /\ line = AssignLine(<<"x">>, OpUNION, <<"b", " ", "a", " ", "b">>)
  /\ Holds(result, KeyPath(<<"x">>), ListV(<< <<"b">>, <<"a">>, <<"b">> >>))

\* C4: FALLBACK on a key that is present (scalar, list or section) leaves the
\* whole tree unchanged, and is accepted unless the value is rejected as
\* empty; on an absent key its outcome is that of SET with the same value.
C4_Fallback ==
  [][\A k \in AlgebraKeys, v \in AlgebraValues :
       Reads(AssignLine(k, OpFALLBACK, v))
         => IF Has(result, KeyPath(k))
              THEN result' = result /\ (Acceptable(v) => Accepted)
              ELSE SameAsReading(AssignLine(k, OpSET, v))]_vars

\* x ?= b a b was read as the second line and x still holds the scalar a
C4_Witness ==
  /\ pc = "loop"
  /\ ctx.line_number = 2
  /\ line = AssignLine(<<"x">>, OpFALLBACK, <<"b", " ", "a", " ", "b">>)
  /\ Holds(result, KeyPath(<<"x">>), StrV(<<"a">>))

\* C5: REPLACE on a key that is present is accepted and leaves the key
\* holding the incoming value (one token: that string; several: their list),
\* the previous entry and everything below it being discarded.
C5_ReplaceStores ==
  [][\A k \in AlgebraKeys, v \in AlgebraValues :
       (Reads(AssignLine(k, OpREPLACE, v)) /\ Has(result, KeyPath(k)) /\ Acceptable(v))
         => (Accepted /\ result' = Put(result, KeyPath(k), Stored(v)))]_vars

ReplaceOptions ==
  {ParserOptions(TRUE, TRUE, TRUE, aev, ns) : aev \in BOOLEAN, ns \in BOOLEAN}
    \cup {ParserPyOptions(TRUE)}

InitReplace == Start(ReplaceOptions, {<<>>})

NextReplace ==
  \/ StartSource(1)
  \/ \E raw \in AlgebraLines : ReadLine(raw, MaxLines)
  \/ EndOfInput

SpecReplace == InitReplace /\ [][NextReplace]_vars

\* C7: with set_is_replace enabled, reading k = v has the outcome and leaves
\* the tree that reading k != v in the same state has, whatever the key
\* holds (nothing, a scalar, a list or a section) and whatever the value.
C7_SetIsReplace ==
  [][\A k \in AlgebraKeys, v \in AlgebraValues :
       (Reads(AssignLine(k, OpSET, v)) /\ parser.set_is_replace)
         => SameAsReading(AssignLine(k, OpREPLACE, v))]_vars

\* config.py: x = b a b was read twice in a row and accepted both times; x
\* holds [b, a, b]
C7_Witness ==
  /\ parser.impl = "config.py"
  /\ parser.set_is_replace
  /\ pc = "loop"
  /\ repeat
  /\ ctx.line_number = 2
  /\ line = AssignLine(<<"x">>, OpSET, <<"b", " ", "a", " ", "b">>)
  /\ Holds(result, KeyPath(<<"x">>), ListV(<< <<"b">>, <<"a">>, <<"b">> >>))

(***************************************************************************)
(* SpecContinuation: one string of lines that open, continue and end       *)
(* values, parsed by the Parser of config.py or of parser.py.              *)
(***************************************************************************)
Backslash == <<"\\">>

ContinuationLines ==
  { AssignLine(<<"k">>, OpSET, <<"a", " ">> \o Backslash),        \* k = a \
    AssignLine(<<"k">>, OpSET, <<"'", "a", " ">> \o Backslash),   \* k = 'a \
    <<"b", " ">> \o Backslash,                                    \* b \
    Backslash,                                                    \* \
    <<"b", "'">>,                                                 \* b'
    <<"b">>,                                                      \* b
    <<>> }                                                        \* a blank line

ContinuationOptions ==
  {ParserOptions(TRUE, TRUE, sir, TRUE, FALSE) : sir \in BOOLEAN}
    \cup {ParserPyOptions(sir) : sir \in BOOLEAN}

InitContinuation ==
  Start(ContinuationOptions, {<<s>> : s \in StringsUpTo(ContinuationLines, MaxLines)})

NextContinuation == NextString \/ NextLine \/ Exhausted

SpecContinuation == InitContinuation /\ [][NextContinuation]_vars

\* the text of a line: without its comment, trimmed
Text(raw) == Strip(LINE(raw))

\* the text ends in a continuation backslash
Continues(text) == VALUE_py(text).match /\ VALUE_py(text).cont

\* the text without its continuation backslash, trimmed
Fragment(text) == Strip(VALUE_py(text).value)

\* The lines with every value that is spread over several lines written on
\* one line: its fragments joined by joined(text so far, fragment).  open is
\* the text of the value being read (None: no value is open); a value still
\* open at the end of the lines is written only if eof.
RECURSIVE Merge(_, _, _, _, _)
Merge(lines, open, out, joined(_, _), eof) ==
  IF lines = <<>> THEN IF open = None \/ ~eof THEN out ELSE Append(out, open)
  ELSE LET t == Text(Head(lines))
           rest == Tail(lines)
       IN IF open = None THEN
            IF ASSIGNMENT(t).match /\ Continues(t)
              THEN Merge(rest, Fragment(t), out, joined, eof)
              ELSE Merge(rest, None, Append(out, Head(lines)), joined, eof)
          ELSE IF t = <<>> THEN Merge(rest, None, Append(out, open), joined, eof)
          ELSE IF Continues(t) THEN Merge(rest, joined(open, Fragment(t)), out, joined, eof)
          ELSE Merge(rest, None, Append(out, joined(open, Fragment(t))), joined, eof)

\* every fragment is joined with a single space
JoinAll(text, fragment) == text \o Sp \o fragment

\* a fragment without text is left out
JoinNonEmpty(text, fragment) == IF fragment = <<>> THEN text ELSE text \o Sp \o fragment

\* the lines read so far
LinesRead == SubSeq(Current, 1, ctx.line_number)

\* The tree is the tree of the one-line writing of the values that have
\* ended: in the loop of the lines read so far, at the return of the whole
\* string.
SameAsOneLine(joined(_, _)) ==
  /\ pc = "loop" =>
       LET one == load_loop(parser, [d |-> EmptyTree, ctx |-> load_context(parser, "str#1"),
                                     exc |-> NoExc],
                            Merge(LinesRead, None, <<>>, joined, FALSE))
       IN ~Raised(one.exc) /\ result = one.d
  /\ pc = "returned" =>
       LET one == load_str(parser, Merge(strings[1], None, <<>>, joined, TRUE), EmptyTree,
                           "str#1")
       IN ~Raised(one.exc) /\ result = one.d

\* C8 as stated: in Parser of parser.py a value spread over several lines
\* commits once, when it ends (last fragment, blank line or end of input),
\* and gives the tree of the one-line assignment whose value is the
\* fragments joined by single spaces.
C8_FragmentsJoined ==
  (parser.impl = "parser.py" /\ pc \in {"loop", "returned"}) => SameAsOneLine(JoinAll)

\* C8 (amended): ... whose value is the fragments that are not empty, joined
\* by single spaces.
C8_NonEmptyFragmentsJoined ==
  (parser.impl = "parser.py" /\ pc \in {"loop", "returned"}) => SameAsOneLine(JoinNonEmpty)

\* k = 'a \ then \ then b' was read to the end: k holds the one string 'a b'
C8_Witness ==
  /\ parser.impl = "parser.py"
  /\ pc = "returned"
  /\ strings[1] = << AssignLine(<<"k">>, OpSET, <<"'", "a", " ">> \o Backslash),
                     Backslash, <<"b", "'">> >>
  /\ Holds(result, << <<"k">> >>, StrV(<<"a", " ", "b">>))

\* the step is the end of the input
EndsInput == pc = "loop" /\ pc' # "loop" /\ ctx'.line_number = ctx.line_number

\* C9: in Parser of config.py, with an assignment pending and its
\* continuation flag set, a blank line and the end of the input each commit
\* the value and leave the context idle, without an error.
C9_ForceCommit ==
  [][(parser.impl = "config.py" /\ ctx.continuation /\ (Reads(<<>>) \/ EndsInput))
       => /\ exc' = NoExc
          /\ ctx'.key = None /\ ~ctx'.continuation
          /\ Has(result', << <<>>, ctx.key >>)]_vars


(***************************************************************************)
(* SpecBatch: batch_load_str of one to MaxSources strings, each of up to   *)
(* MaxLines lines that open the section s and set its key k.               *)
(***************************************************************************)
BatchLines ==
  { Header(<<"s">>),
    AssignLine(<<"k">>, OpSET, <<"a">>),
    AssignLine(<<"k">>, OpSET, <<"b">>) }

BatchOptions ==
  {ParserOptions(FALSE, ass, sir, TRUE, FALSE) : ass \in BOOLEAN, sir \in BOOLEAN}
    \cup {ParserPyOptions(sir) : sir \in BOOLEAN}

InitBatch ==
  Start(BatchOptions, StringsUpTo(StringsUpTo(BatchLines, MaxLines), MaxSources) \ {<<>>})

NextBatch == NextString \/ NextLine \/ Exhausted

SpecBatch == InitBatch /\ [][NextBatch]_vars

\* Loading the strings ss[i], ss[i + 1], ... one after the other into the
\* tree d, each with a new context: the tree the last one leaves, or the
\* first failure.
RECURSIVE Fold(_, _, _, _)
Fold(prs, ss, i, d) ==
  IF i > Len(ss) THEN [d |-> d, exc |-> NoExc]
  ELSE LET st == load_loop(prs, [d |-> d, ctx |-> load_context(prs, CtxId(i)),
                                  exc |-> NoExc], ss[i])
       IN IF Raised(st.exc) THEN [d |-> st.d, exc |-> st.exc]
          ELSE Fold(prs, ss, i + 1, st.d)

\* the failure e is the failure f, apart from the sources a batch names in
\* front of it
SameFailure(e, f) ==
  /\ Raised(e) /\ Raised(f)
  /\ e.text = f.text /\ e.arg = f.arg /\ e.prefix = f.prefix /\ e.index = f.index
  /\ e.ctx = f.ctx /\ e.line = f.line

\* The batch gives what the fold gives: at every return of a source the tree
\* of the fold over the sources parsed so far, at a failure the failure of
\* the fold over all the strings.
BatchIsFold ==
  /\ pc = "returned" =>
       LET f == Fold(parser, SubSeq(strings, 1, Len(ctx_ids)), 1, EmptyTree)
       IN ~Raised(f.exc) /\ result = f.d
  /\ pc = "raised" =>
       LET f == Fold(parser, strings, 1, EmptyTree)
       IN SameFailure(exc, f.exc) /\ f.exc.ctx = CtxId(Len(ctx_ids) + 1)

\* source 1 sets k in the section s, source 2 sets it again with =
SetTwice ==
  /\ Len(strings) = 2
  /\ strings[1] = <<Header(<<"s">>), AssignLine(<<"k">>, OpSET, <<"a">>)>>
  /\ strings[2] = <<Header(<<"s">>), AssignLine(<<"k">>, OpSET, <<"b">>)>>

\* the batch is over: every string was parsed, or one failed
BatchOver == pc = "raised" \/ (pc = "returned" /\ Len(ctx_ids) = Len(strings))

\* the key k of the section s
SK == << <<"s">>, <<"k">> >>

\* Source 2 fails unless set_is_replace is configured; with it the batch
\* returns and k holds the value of source 2.
SecondSetDecides ==
  IF parser.set_is_replace
    THEN pc = "returned" /\ Holds(result, SK, StrV(<<"b">>))
    ELSE pc = "raised" /\ exc.ctx = "str#2" /\ Holds(result, SK, StrV(<<"a">>))

\* the failure is the conflict of the = of source 2 with the value of source 1
FailsAtSet ==
  /\ exc.text \in {"Value already set for key", "Path is already assigned"}
  /\ exc.line = 2
  /\ exc.chain = <<"str#1">>

\* the failure is the header of source 2 naming the section of source 1
FailsAtHeader ==
  /\ pc = "raised"
  /\ exc.text = "Duplicate section" /\ exc.arg = <<"s">>
  /\ exc.ctx = "str#2" /\ exc.line = 1
  /\ exc.chain = <<"str#1">>

\* C10 as stated: the batch is the fold of its sources over one tree, and a
\* = in source 2 on a key set in source 1 fails unless replace is
\* configured, in which case the final value is that of source 2.
C10_BatchIsFold ==
  /\ BatchIsFold
  /\ (SetTwice /\ BatchOver) => SecondSetDecides

\* C10 (amended): the batch is the fold of its sources over one tree (a
\* failure being that of the fold, with the sources already parsed named in
\* front).  A = in source 2 on a key set in source 1 fails at that = unless
\* replace is configured, in which case the final value is that of source 2,
\* provided source 2 may open the section again: in Parser of config.py
\* without allow_section_split it fails at its header, replace or not.
C10_BatchIsFoldWhereSplit ==
  /\ BatchIsFold
  /\ (SetTwice /\ BatchOver /\ parser.allow_section_split)
       => (SecondSetDecides /\ (pc = "raised" => FailsAtSet))
  /\ (SetTwice /\ BatchOver /\ ~parser.allow_section_split) => FailsAtHeader

\* config.py with set_is_replace and allow_section_split: [s] k = a, then
\* [s] k = b were parsed and k holds b
C10_Witness ==
  /\ parser.impl = "config.py" /\ parser.set_is_replace
  /\ SetTwice
  /\ pc = "returned"
  /\ ctx_ids = <<"str#1", "str#2">>
  /\ Holds(result, SK, StrV(<<"b">>))


\* C11: when source i of a batch fails with a positioned error, the message
\* starts with the ids of the i - 1 sources already parsed and of the
\* failing source joined by ' > ', then the line being processed; for i = 1
\* that is the id of the first source alone.
C11_BatchMessage ==
  (pc = "raised" /\ exc.batch /\ exc.ctx # "")
    => /\ message_head(exc) = join_ids(Append(ctx_ids, CtxId(Len(ctx_ids) + 1)))
       /\ exc.line = ctx.line_number


(***************************************************************************)
(* SpecSections: section headers and dotted keys in one source, under      *)
(* Parser of config.py with each combination of                            *)
(* enable_default_section, allow_section_split and nested_sections, and    *)
(* under Parser of parser.py.  The names are chosen so that one path is    *)
(* reached as a section and as a key: s.k is the section of [s.k], the key *)
(* k of [s] and the section of the key k.j of [s].                         *)
(***************************************************************************)
SectionNames == {<<>>, <<"s">>, <<"s", ".", "k">>, <<"s", ".", "k", ".", "j">>}

SectionKeys == {<<"k">>, <<"j">>, <<"k", ".", "j">>}

A == <<"a">>

\* a line that is nothing, a path that is none, a value that is none
BadLines == {<<"k">>, AssignLine(<<".", "k">>, OpSET, A), AssignLine(<<"k">>, OpSET, <<"\\", "q">>)}

SectionLines ==
  {Header(n) : n \in SectionNames}
    \cup {AssignLine(k, o, A) : k \in SectionKeys, o \in Ops}
    \cup BadLines

SectionOptions ==
  {ParserOptions(eds, ass, FALSE, TRUE, ns) : eds \in BOOLEAN, ass \in BOOLEAN, ns \in BOOLEAN}
    \cup {ParserPyOptions(FALSE)}

InitSections == Start(SectionOptions, {<<>>})

\* the source has one line more than MaxLines: a section is entered, written,
\* entered again and written again
SectionsMaxLines == MaxLines + 1

NextSections ==
  \/ StartSource(1)
  \/ \E raw \in SectionLines : ReadLine(raw, SectionsMaxLines)
  \/ EndOfInput

SpecSections == InitSections /\ [][NextSections]_vars


(***************************************************************************)
(* Properties of sections and paths (SpecSections).                        *)
(***************************************************************************)
\* the state __load is in before the step
Loading == [d |-> result, ctx |-> ctx, exc |-> NoExc]

\* the step is one of __load that raises
LoadRaises == pc = "loop" /\ pc' = "raised"

\* the exception load_str raises in such a step, before batch_load_str gets
\* it: the one of the end of the input when no line was read, of the line
\* read otherwise
LoadRaised ==
  IF ctx'.line_number = ctx.line_number THEN load_end(parser, Loading).exc
  ELSE load_line(parser, Loading, line').exc

\* the exception e is a ParsingError with the position of the context c
Positioned(e, c) == e.type = "ParsingError" /\ e.ctx = c.ctx_id /\ e.line = c.line_number

\* C12: every error Parser.load_str of parser.py raises because of the input
\* text is a ParsingError whose message starts with the id of the context and
\* the 1-based number of the line being processed; no PathError,
\* AssignmentError or other unpositioned error escapes.
C12_Positioned ==
  [][(parser.impl = "parser.py" /\ LoadRaises) => Positioned(LoadRaised, ctx')]_vars

\* one of the first n prefixes of the path segs holds a scalar or a list in d
PassesValue(d, segs, n) == \E i \in 1..n : HasValue(d, SubSeq(segs, 1, i))

\* the place in the tree of the section named name
SectionPath(name) == StoredAt(parser, name)

\* the line read was rejected with the positioned Parser.Error of text
RejectedWith(text) ==
  /\ pc' = "raised"
  /\ exc'.type = "Parser.Error" /\ exc'.text = text
  /\ exc'.ctx = ctx'.ctx_id /\ exc'.line = ctx'.line_number

\* C13: in Parser of config.py with nested_sections enabled, a section header
\* or a dotted key whose path passes, at any depth, through an entry that
\* holds a scalar or a list is rejected with the positioned Parser.Error
\* "Key '<path>' is already assigned to a value"; no other exception escapes.
C13_PathThroughValue ==
  [][(parser.impl = "config.py" /\ parser.nested_sections)
       => /\ \A n \in SectionNames :
               (Reads(Header(n))
                  /\ PassesValue(result, SectionPath(n), Len(SectionPath(n))))
                 => RejectedWith("Key is already assigned to a value")
          /\ \A k \in SectionKeys, o \in Ops :
               (Reads(AssignLine(k, o, A)) /\ ctx.section # None
                  /\ PassesValue(result, SectionPath(ctx.section) \o Split(k, "."),
                                 Len(SectionPath(ctx.section) \o Split(k, ".")) - 1))
                 => RejectedWith("Key is already assigned to a value")]_vars


\* the step reads a line whose operator is op
ReadsOp(op) == \E k \in SectionKeys : Reads(AssignLine(k, op, A))

\* the step reads a line
ReadsLine == \E raw \in SectionLines : Reads(raw)

\* every entry of the tree before the step is an entry after it, a section
\* if it was a section and a scalar or a list if it was one
KindsKept ==
  \A p \in DOMAIN result :
    Has(result', p) /\ (result'[p].kind = "dict" <=> result[p].kind = "dict")

\* C14: in Parser of config.py with set_is_replace disabled, no line other
\* than a REPLACE (!=) line turns an entry that holds a section into a scalar
\* or list, or an entry that holds a scalar or list into a section: the line
\* fails or leaves the kind of every entry unchanged.
C14_KindsKept ==
  [][(parser.impl = "config.py" /\ ~parser.set_is_replace /\ ReadsLine /\ ~ReadsOp(OpREPLACE))
       => KindsKept]_vars


\* under [s], k = a was rejected: s.k is the section the key k.j made
C14_Witness ==
  /\ pc = "raised" /\ parser.impl = "config.py" /\ ~parser.set_is_replace
  /\ line = AssignLine(<<"k">>, OpSET, A)
  /\ ctx.section = <<"s">>
  /\ Has(result, << <<"s">>, <<"k">> >>) /\ result[<< <<"s">>, <<"k">> >>].kind = "dict"
  /\ Has(result, << <<"s">>, <<"k">>, <<"j">> >>)


\* the place in the Config of the dotted path
ConfigPath(path) == Split(path, ".")

\* the dotted path of the key read in the section
Qualified(section, key) == IF section = <<>> THEN key ELSE section \o <<".">> \o key

\* C15: in Context of context.py, setting the current section to a path that
\* already holds a section is accepted and changes nothing in the tree; an
\* assignment accepted afterwards is made in that section (the path of the
\* key, qualified by the section, is in the tree), and every entry written
\* before, other than the one assigned and what was below it, is still there
\* with its value.
C15_SectionSplit ==
  [][parser.impl = "parser.py"
       => /\ \A n \in SectionNames \ {<<>>} :
               (Reads(Header(n)) /\ IsDict(result, ConfigPath(n)))
                 => Accepted /\ ctx'.section = n /\ result' = result
          /\ \A k \in SectionKeys, o \in Ops :
               (Reads(AssignLine(k, o, A)) /\ Accepted)
                 => LET p == ConfigPath(Qualified(ctx.section, k))
                    IN /\ ctx'.section = ctx.section
                       /\ Has(result', p)
                       /\ \A q \in DOMAIN result :
                            ~IsPrefix(p, q) => Holds(result', q, result[q])]_vars

\* [s], k = a, [s], j = a were read: the section s holds k and j
C15_Witness ==
  /\ parser.impl = "parser.py" /\ pc = "loop"
  /\ ctx.line_number = 4 /\ ctx.section = <<"s">>
  /\ line = AssignLine(<<"j">>, OpSET, A)
  /\ Holds(result, << <<"s">>, <<"k">> >>, StrV(A))
  /\ Holds(result, << <<"s">>, <<"j">> >>, StrV(A))


(***************************************************************************)
(* SpecSplit: the sections s and '' declared again, in the same source or  *)
(* in the next source of the batch, under Parser of config.py with each    *)
(* combination of enable_default_section, allow_section_split and          *)
(* nested_sections.                                                        *)
(***************************************************************************)
SplitNames == {<<>>, <<"s">>}

SplitLines ==
  {Header(n) : n \in SplitNames} \cup {AssignLine(k, OpSET, A) : k \in {<<"k">>, <<"j">>}}

SplitOptions ==
  {ParserOptions(eds, ass, FALSE, TRUE, ns) : eds \in BOOLEAN, ass \in BOOLEAN, ns \in BOOLEAN}

InitSplit == Start(SplitOptions, {<<>>})

NextSplit ==
  \/ StartSource(MaxSources)
  \/ \E raw \in SplitLines : ReadLine(raw, MaxLines)
  \/ EndOfInput

SpecSplit == InitSplit /\ [][NextSplit]_vars

\* C16: in Parser of config.py, a header naming a section that is in the
\* tree, made earlier in the same source or by an earlier source of the
\* batch, fails with the positioned error "Duplicate section: '<name>'" when
\* allow_section_split is disabled; when it is enabled the header is accepted,
\* the tree is unchanged and the section is the current one, so that a key
\* accepted afterwards is written into it beside the keys it had.
C16_DuplicateSection ==
  [][/\ \A n \in SplitNames :
          (Reads(Header(n)) /\ Has(result, SectionPath(n)))
            => IF parser.allow_section_split
                 THEN Accepted /\ ctx'.section = n /\ result' = result
                 ELSE RejectedWith("Duplicate section") /\ exc'.arg = n /\ result' = result
     /\ \A k \in {<<"k">>, <<"j">>} :
          (Reads(AssignLine(k, OpSET, A)) /\ Accepted)
            => /\ Holds(result', Append(SectionPath(ctx'.section), k), StrV(A))
               /\ \A p \in DOMAIN result : Holds(result', p, result[p])]_vars

\* the second source of a batch declared [s] again and was rejected
C16_Witness ==
  /\ pc = "raised" /\ ~parser.allow_section_split
  /\ ctx_ids = <<"str#1">> /\ ctx.ctx_id = "str#2"
  /\ line = Header(<<"s">>)
  /\ exc.text = "Duplicate section" /\ exc.arg = <<"s">>
  /\ Has(result, << <<"s">>, <<"k">> >>)


\* the place in the tree of the default section, the one stored under ''
DefaultSection == SectionPath(<<>>)

\* the default section may be opened: it is not in the tree, or sections may
\* be split
DefaultOpens == ~Has(result, DefaultSection) \/ parser.allow_section_split

Nests == parser.impl = "parser.py" \/ parser.nested_sections

\* what == compares of a tree: the kind and the content of every entry, not
\* the section attribute of a Parser.Dict
Content(d) == [p \in DOMAIN d |-> [kind |-> d[p].kind, items |-> d[p].items]]

\* the tree load_str makes of the lines
Loaded(lines) == Content(load_str(parser, lines, EmptyTree, "str").d)

\* the place in the tree of the current section: the root for parser.py when
\* no section is entered; for config.py the section '' when no header was
\* read
CurrentPath ==
  IF parser.impl = "parser.py"
    THEN IF ctx.section = <<>> THEN <<>> ELSE ConfigPath(ctx.section)
    ELSE IF ctx.section = None THEN DefaultSection ELSE SectionPath(ctx.section)

\* the key k.j
KJ == <<"k", ".", "j">>

\* the step reads P.k = v, here k.j op a, as line n of its source and the
\* line is accepted
ReadsDotted(op, n) ==
  Nests /\ Reads(AssignLine(KJ, op, A)) /\ Accepted /\ ctx'.line_number = n

\* after the step the key j is in the section k below the path at
WrittenBelow(at) ==
  /\ Has(result', at \o << <<"k">>, <<"j">> >>)
  /\ \A i \in 1..(Len(at) + 1) : IsDict(result', SubSeq(at \o << <<"k">> >>, 1, i))

\* C18 as stated: P.k read in section S writes k into section S.P, making the
\* sections that are missing, and at the root into section P; [S], P.k = v
\* and [S.P], k = v make equal trees, and so do P.k = v and [P], k = v at the
\* root.
C18_DottedPath ==
  [][\A o \in Ops :
       /\ ReadsDotted(o, ctx'.line_number)
            => WrittenBelow(IF ctx.section \in {None, <<>>} THEN <<>> ELSE CurrentPath)
       /\ (ReadsDotted(o, 2) /\ ctx.section = <<"s">>)
            => Content(result') = Loaded(<<Header(<<"s", ".", "k">>), AssignLine(<<"j">>, o, A)>>)
       /\ ReadsDotted(o, 1)
            => Content(result') = Loaded(<<Header(<<"k">>), AssignLine(<<"j">>, o, A)>>)]_vars

\* C18 (amended): P.k read in section S writes k into section S.P, making the
\* sections that are missing; [S], P.k = v and [S.P], k = v make equal trees.
\* Before any header, parser.py writes into section P of the root, as [P],
\* k = v does; config.py writes into section P of the default section '', as
\* [.P], k = v does.
C18_DottedPathInSection ==
  [][\A o \in Ops :
       /\ ReadsDotted(o, ctx'.line_number) => WrittenBelow(CurrentPath)
       /\ (ReadsDotted(o, 2) /\ ctx.section = <<"s">>)
            => Content(result') = Loaded(<<Header(<<"s", ".", "k">>), AssignLine(<<"j">>, o, A)>>)
       /\ ReadsDotted(o, 1)
            => Content(result')
                 = Loaded(<<Header(IF parser.impl = "parser.py" THEN <<"k">> ELSE <<".", "k">>),
                            AssignLine(<<"j">>, o, A)>>)]_vars

\* [s] and k.j = a were read by config.py: j is a key of the section s.k
C18_Witness ==
  /\ parser.impl = "config.py" /\ parser.nested_sections /\ pc = "loop"
  /\ ctx.line_number = 2 /\ ctx.section = <<"s">>
  /\ line = AssignLine(KJ, OpSET, A)
  /\ Holds(result, << <<"s">>, <<"k">>, <<"j">> >>, StrV(A))
  /\ IsDict(result, << <<"s">>, <<"k">> >>)


(***************************************************************************)
(* SpecEmpty: values that are empty, or whose tokens are, assigned to the  *)
(* key x of the default section with each operator, under Parser of        *)
(* config.py with allow_empty_values and set_is_replace enabled or not.    *)
(***************************************************************************)
\* a, nothing, ' ', a '', "' '"
EmptyValues ==
  {A, <<>>, <<"'", " ", "'">>, <<"a", " ", "'", "'">>, <<"\"", "'", " ", "'", "\"">>}

EmptyLines == {AssignLine(<<"x">>, o, v) : o \in Ops, v \in EmptyValues}

EmptyOptions ==
  {ParserOptions(TRUE, TRUE, sir, aev, FALSE) : sir \in BOOLEAN, aev \in BOOLEAN}

InitEmpty == Start(EmptyOptions, {<<>>})

NextEmpty ==
  \/ StartSource(1)
  \/ \E raw \in EmptyLines : ReadLine(raw, MaxLines)
  \/ EndOfInput

SpecEmpty == InitEmpty /\ [][NextEmpty]_vars

\* no leaf of the tree d is the empty string, no list of it contains it
NoEmpty(d) ==
  \A p \in DOMAIN d :
    d[p].kind # "dict" => \A i \in 1..Len(d[p].items) : d[p].items[i] # <<>>

\* the tokens of a value text, each without the blanks around it
Trimmed(value) == [i \in 1..Len(Tokens(value)) |-> Strip(Tokens(value)[i])]

\* C19: in Parser of config.py with allow_empty_values disabled, no leaf of
\* the tree is the empty string and no list of the tree contains it, whatever
\* lines were accepted; a line whose value is empty or is one token that is
\* blank is rejected with "Empty value", and a line whose value has several
\* tokens, one of them empty, with "Empty element at index i", i being the
\* 0-based index of the first such token.
C19_NoEmptyValues ==
  [][~parser.allow_empty_values
       => /\ NoEmpty(result')
          /\ \A o \in Ops, v \in EmptyValues :
               Reads(AssignLine(<<"x">>, o, v))
                 => /\ (Len(Trimmed(v)) = 0 \/ Trimmed(v) = << <<>> >>)
                         => RejectedWith("Empty value")
                    /\ (Len(Trimmed(v)) > 1 /\ \E i \in 1..Len(Trimmed(v)) : Trimmed(v)[i] = <<>>)
                         => /\ RejectedWith("Empty element at index")
                            /\ exc'.index = FirstIndex(Trimmed(v), <<>>) - 1]_vars

\* x = a was accepted and x += ' ' was rejected: the value is one blank token
C19_Witness ==
  /\ pc = "raised" /\ ~parser.allow_empty_values
  /\ line = AssignLine(<<"x">>, OpAPPEND, <<"'", " ", "'">>)
  /\ exc.text = "Empty value"
  /\ Holds(result, << <<>>, <<"x">> >>, StrV(A))


\* the line the step reads replaces what its key holds: its operator is !=,
\* or = when set_is_replace is enabled
Replaces ==
  /\ ASSIGNMENT(Strip(LINE(line'))).match
  /\ \/ ASSIGNMENT(Strip(LINE(line'))).op = "!="
     \/ ASSIGNMENT(Strip(LINE(line'))).op = "=" /\ parser.set_is_replace

\* C20 as stated: under Parser of config.py every path of the tree, section
\* or key, is still a path of the tree after every later step of the load: no
\* path disappears.
C20_NeverShrinks ==
  [][parser.impl = "config.py" => \A p \in DOMAIN result : Has(result', p)]_vars

\* C20 (amended): under Parser of config.py a path of the tree disappears in
\* one case only: a line that replaces (!=, or = under set_is_replace)
\* overwrites with a scalar or list an entry that held a section, and the
\* paths below that entry go with the section; the entry itself stays.  Every
\* other step keeps every path.
C20_ShrinksBelowReplaced ==
  [][\A p \in DOMAIN result :
       \/ parser.impl # "config.py"
       \/ Has(result', p)
       \/ /\ pc = "loop" /\ ctx'.line_number = ctx.line_number + 1 /\ Replaces
          /\ \E i \in 1..(Len(p) - 1) :
               /\ result[SubSeq(p, 1, i)].kind = "dict"
               /\ HasValue(result', SubSeq(p, 1, i))]_vars

\* [s], k.j = a, k != a were read: s.k holds a, and s.k.j is gone
C20_Witness ==
  /\ pc = "loop" /\ ctx.line_number = 3
  /\ line = AssignLine(<<"k">>, OpREPLACE, A)
  /\ Holds(result, << <<"s">>, <<"k">> >>, StrV(A))
  /\ DOMAIN result = {<< <<"s">> >>, << <<"s">>, <<"k">> >>}
  /\ parser.impl = "config.py" /\ parser.nested_sections


(***************************************************************************)
(* Properties of a rejected line, of the tokenization of a value and of    *)
(* the assignment modes on a key (SpecAlgebra, SpecEmpty, SpecSections).   *)
(***************************************************************************)
\* C21: a line that is rejected with an error leaves the tree exactly as it
\* was before the line was read: no section made while the path of the line
\* was resolved remains in the tree.
C21_NoPartialWrite ==
  [][LoadRaises => result' = result]_vars


\* C22: a value that tokenizes to exactly one token t, assigned with SET,
\* REPLACE or FALLBACK to a key that is absent, leaves the key holding the
\* single string t, also when t holds white space: it is not split again.
C22_TokenizedOnce ==
  [][\A k \in AlgebraKeys, v \in AlgebraValues, o \in {OpSET, OpREPLACE, OpFALLBACK} :
       (/\ Reads(AssignLine(k, o, v))
        /\ ~Has(result, KeyPath(k))
        /\ Len(Tokens(v)) = 1
        /\ Accepted)
         => Holds(result', KeyPath(k), StrV(Tokens(v)[1]))]_vars


(***************************************************************************)
(* ReadOnlyDict of dict.py.  The view keeps the dict it was given          *)
(* (wrapped), not a copy of it.  A method returns [wrapped, ret, exc]: the *)
(* wrapped dict after the call, what the call returned and what it raised. *)
(***************************************************************************)
NotImplementedError == Exc("NotImplementedError", "", <<>>, <<>>, 0)

Returned(w, ret) == [wrapped |-> w, ret |-> ret, exc |-> NoExc]
Threw(w, e) == [wrapped |-> w, ret |-> None, exc |-> e]

\* d[key] = value on a dict
dict_setitem(d, key, value) ==
  Returned([k \in DOMAIN d \cup {key} |-> IF k = key THEN value ELSE d[k]], None)

\* del d[key] on a dict
dict_delitem(d, key) ==
  IF key \in DOMAIN d THEN Returned([k \in DOMAIN d \ {key} |-> d[k]], None)
  ELSE Threw(d, KeyError)

\* d |= other, d.update(other) on a dict
dict_update(d, other) ==
  Returned([k \in DOMAIN d \cup DOMAIN other |-> IF k \in DOMAIN other THEN other[k] ELSE d[k]],
           None)

\* ro[key]
ReadOnlyDict_getitem(w, key) ==
  IF key \in DOMAIN w THEN Returned(w, w[key]) ELSE Threw(w, KeyError)

\* ro[key] = value passed on to the wrapped dict
ReadOnlyDict_setitem_through(w, key, value) == dict_setitem(w, key, value)

\* ro[key] = value
ReadOnlyDict_setitem(w, key, value) == Threw(w, NotImplementedError)

\* del ro[key]
ReadOnlyDict_delitem(w, key) == Threw(w, NotImplementedError)

\* ro |= other
ReadOnlyDict_ior(w, other) == Threw(w, NotImplementedError)

\* ro.update(other)
ReadOnlyDict_update(w, other) == Threw(w, NotImplementedError)

(***************************************************************************)
(* SpecView: a ReadOnlyDict on a dict that its owner keeps changing.  The  *)
(* keys are 1..MaxKey and the values 2 and 4.                              *)
(***************************************************************************)
MaxKey == 3

ViewKeys == 1..MaxKey
ViewValues == {2, 4}

\* the dicts given to |= and update
ViewDicts == UNION {[K -> ViewValues] : K \in SUBSET ViewKeys}

\* ro = ReadOnlyDict({})
InitView == Start({ParserPyOptions(FALSE)}, {<<>>})

\* the call op(args) is made and ends as r
Calls(op, args, r) ==
  /\ wrapped' = r.wrapped
  /\ call' = Call(op, args, r.ret, r.exc)
  /\ UNCHANGED <<parser, strings, result, ctx, pc, exc, ctx_ids, line, repeat, own>>

NextView ==
  \/ \E k \in ViewKeys, v \in ViewValues :
       Calls("dict.__setitem__", <<k, v>>, dict_setitem(wrapped, k, v))
  \/ \E k \in ViewKeys : Calls("dict.__delitem__", <<k>>, dict_delitem(wrapped, k))
  \/ \E other \in ViewDicts : Calls("dict.update", <<other>>, dict_update(wrapped, other))
  \/ \E k \in ViewKeys : Calls("__getitem__", <<k>>, ReadOnlyDict_getitem(wrapped, k))
  \/ \E k \in ViewKeys, v \in ViewValues :
       Calls("__setitem__", <<k, v>>, ReadOnlyDict_setitem(wrapped, k, v))
  \/ \E k \in ViewKeys : Calls("__delitem__", <<k>>, ReadOnlyDict_delitem(wrapped, k))
  \/ \E other \in ViewDicts : Calls("__ior__", <<other>>, ReadOnlyDict_ior(wrapped, other))
  \/ \E other \in ViewDicts : Calls("update", <<other>>, ReadOnlyDict_update(wrapped, other))

SpecView == InitView /\ [][NextView]_vars

\* the methods of ReadOnlyDict that write
ViewWrites == {"__setitem__", "__delitem__", "__ior__", "update"}

\* C23: ro[k] returns the value the wrapped dict holds for k now, and raises
\* KeyError when it holds none; item assignment, deletion, |= and update()
\* on the view raise NotImplementedError and leave the wrapped dict as it
\* was.
C23_ReadOnlyView ==
  [][/\ call'.op = "__getitem__" =>
          /\ wrapped' = wrapped
          /\ IF call'.args[1] \in DOMAIN wrapped
               THEN call'.exc = NoExc /\ call'.ret = wrapped[call'.args[1]]
               ELSE call'.exc.type = "KeyError"
     /\ call'.op \in ViewWrites =>
          call'.exc.type = "NotImplementedError" /\ wrapped' = wrapped]_vars

\* an item assignment on the view of a dict that holds the key with another
\* value was refused
C23_Witness ==
  /\ call.op = "__setitem__"
  /\ call.exc.type = "NotImplementedError"
  /\ call.args[1] \in DOMAIN wrapped
  /\ wrapped[call.args[1]] # call.args[2]


(***************************************************************************)
(* AssignmentMode of assignment_mode.py.  A Python object given as an      *)
(* argument is [type, text]: the name of its type and, of a str, its text. *)
(***************************************************************************)
Str(text) == [type |-> "str", text |-> text]
Obj(type) == [type |-> type, text |-> <<>>]

\* assert_type(obj, type, prefix) of error.py: what it raises; the message
\* names the type of obj, 'None' for None
assert_type(obj, type, prefix) ==
  IF obj.type = type THEN NoExc
  ELSE Exc("TypeError", "Invalid type", IF obj.type = "NoneType" THEN "None" ELSE obj.type,
           prefix, 0)

\* the members of AssignmentMode in the order of the class body, each with
\* its value
AssignmentMode ==
  <<[name |-> "SET", value |-> OpSET], [name |-> "REPLACE", value |-> OpREPLACE],
    [name |-> "FALLBACK", value |-> OpFALLBACK], [name |-> "APPEND", value |-> OpAPPEND],
    [name |-> "UNION", value |-> OpUNION]>>

\* __map once __init__ has run for every member: the member of each value,
\* the last one made having the entry
AssignmentMode_map ==
  LET members == DOMAIN AssignmentMode
      last(v) == CHOOSE i \in members :
                   /\ AssignmentMode[i].value = v
                   /\ \A j \in members : AssignmentMode[j].value = v => j <= i
  IN [v \in {AssignmentMode[i].value : i \in members} |-> AssignmentMode[last(v)].name]

\* from_str without the check of the type of its argument
AssignmentMode_from_str_unchecked(assignment) ==
  [ret |-> IF assignment.type = "str" /\ assignment.text \in DOMAIN AssignmentMode_map
             THEN AssignmentMode_map[assignment.text] ELSE "None",
   exc |-> NoExc]

\* AssignmentMode.from_str(assignment): [ret, exc]
AssignmentMode_from_str(assignment) ==
  LET e == assert_type(assignment, "str", "assignment")
  IN IF Raised(e) THEN [ret |-> "None", exc |-> e]
     ELSE [ret |-> IF assignment.text \in DOMAIN AssignmentMode_map
                     THEN AssignmentMode_map[assignment.text] ELSE "None",
           exc |-> NoExc]

(***************************************************************************)
(* SpecModes: from_str on the strings of at most MaxOp characters of an    *)
(* operator or a space, and on objects that are no strings.                *)
(***************************************************************************)
MaxOp == 3

ModeChars == {"=", "!", "?", "+", "^", " "}

ModeInputs ==
  {Str(s) : s \in StringsUpTo(ModeChars, MaxOp)}
    \cup {Obj("NoneType"), Obj("int"), Obj("bytes"), Obj("list")}

InitModes == Start({ParserPyOptions(FALSE)}, {<<>>})

\* AssignmentMode.from_str(assignment) is called
FromStr(assignment) ==
  /\ \E r \in {AssignmentMode_from_str(assignment)} :
       call' = Call("from_str", <<assignment>>, r.ret, r.exc)
  /\ UNCHANGED <<parser, strings, result, ctx, pc, exc, ctx_ids, line, repeat, wrapped, own>>

NextModes == \E assignment \in ModeInputs : FromStr(assignment)

SpecModes == InitModes /\ [][NextModes]_vars

\* C24: from_str returns SET for '=', REPLACE for '!=', FALLBACK for '?=',
\* APPEND for '+=' and UNION for '^=', None for every other string, and
\* raises TypeError for an argument that is no string.
C24_FromStr ==
  call.op = "from_str" =>
    LET assignment == call.args[1]
    IN IF assignment.type = "str"
         THEN /\ call.exc = NoExc
              /\ call.ret = CASE assignment.text = <<"=">> -> "SET"
                              [] assignment.text = <<"!", "=">> -> "REPLACE"
                              [] assignment.text = <<"?", "=">> -> "FALLBACK"
                              [] assignment.text = <<"+", "=">> -> "APPEND"
                              [] assignment.text = <<"^", "=">> -> "UNION"
                              [] OTHER -> "None"
         ELSE call.exc.type = "TypeError"

\* from_str was given None and raised TypeError
C24_Witness ==
  /\ call.op = "from_str"
  /\ call.args[1] = Obj("NoneType")
  /\ call.exc.type = "TypeError"


\* C25: APPEND or UNION on a key that is absent leaves the key holding a
\* list: the one token of the value (the empty string for a value without
\* a token, where that is allowed) as a list of one element, several tokens
\* as their flat list; SET, REPLACE or FALLBACK on a key that is absent
\* leaves the key holding the single token of the value as a scalar.
C25_AbsentKey ==
  [][\A k \in AlgebraKeys, v \in AlgebraValues, o \in Ops :
       (Reads(AssignLine(k, o, v)) /\ ~Has(result, KeyPath(k)) /\ Accepted)
         => IF o \in {OpAPPEND, OpUNION}
              THEN Holds(result', KeyPath(k), ListV(Elements(v)))
              ELSE Len(Tokens(v)) = 1 => Holds(result', KeyPath(k), StrV(Tokens(v)[1]))]_vars

C27_EmptyBeforeConflict ==
  [][\A k \in AlgebraKeys, v \in AlgebraValues, o \in Ops :
       (Reads(AssignLine(k, o, v)) /\ HasValue(result, KeyPath(k)) /\ Tokens(v) = <<>>)
         => /\ ~parser.allow_empty_values
                 => RejectedWith("Empty value") /\ result' = result
            /\ (parser.allow_empty_values /\ ~parser.set_is_replace /\ o = OpSET)
                 => RejectedWith("Value already set for key") /\ result' = result]_vars

\* x ?= with no value was read with allow_empty_values disabled while x held
\* a, and rejected as empty
C27_Witness ==
  /\ ~parser.allow_empty_values
  /\ pc = "raised"
  /\ exc.text = "Empty value"
  /\ line = AssignLine(<<"x">>, OpFALLBACK, <<>>)
  /\ Holds(result, KeyPath(<<"x">>), StrV(<<"a">>))


(***************************************************************************)
(* SpecContext: a Context called directly, the one of context.py and the   *)
(* one of config.py, by a caller that catches what a call raises and goes  *)
(* on calling.  The paths are a and a.b, the sections the top and s, the   *)
(* value v continued by w or by nothing.                                   *)
(***************************************************************************)
MaxValue == 3      \* characters of the value of a pending assignment

ContextOptions == {ParserPyOptions(FALSE), ParserOptions(TRUE, TRUE, FALSE, TRUE, FALSE)}

ContextPaths == {<<"a">>, <<"a", ".", "b">>}
ContextSections == {<<>>, <<"s">>}
ContextModes == {"SET", "FALLBACK"}
ContextFragments == {<<"w">>, <<>>}

\* Context() of context.py, Parser.Context(parser, d, 'ctx') of config.py
InitContext ==
  /\ parser \in ContextOptions
  /\ strings = <<>>
  /\ result = EmptyTree
  /\ ctx = load_context(parser, "ctx")
  /\ pc = "start"
  /\ exc = NoExc
  /\ ctx_ids = <<>>
  /\ line = None
  /\ repeat = FALSE
  /\ wrapped = EmptyDict
  /\ own = <<>>
  /\ call = NoCall

\* the call op(args) on the context ends in the state st
Ends(op, args, st) ==
  /\ result' = st.d
  /\ ctx' = st.ctx
  /\ exc' = st.exc
  /\ call' = Call(op, args, None, st.exc)
  /\ UNCHANGED <<parser, strings, pc, ctx_ids, line, repeat, wrapped, own>>

\* ctx.assign(path, 'v', mode, continues)
Assign(path, mode, continues) ==
  Ends("assign", <<path, mode, continues>>,
       IF parser.impl = "parser.py"
         THEN ContextPy_assign(Loading, path, <<"v">>, mode, continues)
         ELSE Context_assign(parser, Loading, path, <<"v">>, mode, continues))

\* ctx.continue_assignment(value, continues)
Continue(value, continues) ==
  /\ (ctx.continuation /\ value # <<>>) => Len(ctx.value) + 1 + Len(value) <= MaxValue
  /\ Ends("continue_assignment", <<value, continues>>,
          IF parser.impl = "parser.py"
            THEN ContextPy_continue_assignment(Loading, value, continues)
            ELSE Context_continue_assignment(parser, Loading, value, continues))

\* ctx.apply()
Apply ==
  Ends("apply", <<>>,
       IF parser.impl = "parser.py" THEN ContextPy_apply(Loading)
       ELSE Context_apply(parser, Loading))

\* ctx.section = path
SetSection(path) ==
  Ends("section", <<path>>,
       IF parser.impl = "parser.py" THEN ContextPy_section(Loading, path)
       ELSE Context_section(parser, Loading, path))

NextContext ==
  \/ \E path \in ContextPaths, mode \in ContextModes, continues \in BOOLEAN :
       Assign(path, mode, continues)
  \/ \E value \in ContextFragments, continues \in BOOLEAN : Continue(value, continues)
  \/ Apply
  \/ \E path \in ContextSections : SetSection(path)

SpecContext == InitContext /\ [][NextContext]_vars


\* the context holds no assignment
Idle(c) ==
  c.key = None /\ c.value = None /\ c.assignment_mode = "None" /\ ~c.continuation

\* the step is the call op on the context
Called(op) == call'.op = op /\ vars' # vars

\* C28: a call of assign or of continue_assignment with continues=True that
\* is accepted leaves the tree as it was and the assignment pending: the
\* key and the sections on its path are made by the call that commits.
C28_PendingLeavesTree ==
  [][/\ (Called("assign") /\ call'.args[3] /\ ~Raised(exc'))
          => result' = result /\ ctx'.continuation /\ ctx'.key = call'.args[1]
     /\ (Called("continue_assignment") /\ call'.args[2] /\ ~Raised(exc'))
          => result' = result /\ ctx'.continuation /\ ctx'.key = ctx.key]_vars

\* in context.py: a.b = v was begun and continued by w, both continuing, and
\* the tree is still empty
C28_Witness ==
  /\ parser.impl = "parser.py"
  /\ call.op = "continue_assignment" /\ call.args = << <<"w">>, TRUE >>
  /\ ctx.continuation
  /\ ctx.key = <<"a", ".", "b">> /\ ctx.value = <<"v", " ", "w">>
  /\ result = EmptyTree


\* the call was refused with ContextError 'Invalid state' and changed nothing
Refused ==
  /\ exc'.type = "ContextError" /\ exc'.text = "Invalid state"
  /\ ctx' = ctx
  /\ result' = result

\* C29: the Context of context.py refuses a call made out of state with
\* ContextError 'Invalid state', leaving the pending record, the section and
\* the tree as they were: apply() and continue_assignment() while it holds
\* no assignment, continue_assignment() while the assignment it holds does
\* not continue, assign() while it holds an assignment.
C29_InvalidState ==
  [][parser.impl = "parser.py"
       => /\ (Called("apply") /\ Idle(ctx)) => Refused
          /\ (Called("continue_assignment") /\ (Idle(ctx) \/ ~ctx.continuation)) => Refused
          /\ (Called("assign") /\ ~Idle(ctx)) => Refused]_vars

\* assign for the path a was refused while the context held a.b = v, an
\* assignment that continues
C29_Witness ==
  /\ parser.impl = "parser.py"
  /\ call.op = "assign" /\ call.args[1] = <<"a">>
  /\ exc.text = "Invalid state"
  /\ ctx.key = <<"a", ".", "b">> /\ ctx.value = <<"v">> /\ ctx.continuation

\* C30: the section of a Context is changed only while the context holds no
\* assignment: the section setter called while an assignment is pending
\* raises and leaves the current section as it was, in context.py and in
\* config.py.
C30_SectionOnlyWhenIdle ==
  [][(Called("section") /\ ~Idle(ctx)) => (Raised(exc') /\ ctx'.section = ctx.section)]_vars

(***************************************************************************)
(* SpecFragments: one source whose lines open, continue and end values,    *)
(* some of the continuing lines looking like an assignment, a header or a  *)
(* comment; the keys k and j, and the key x.k qualified by a path.         *)
(***************************************************************************)
FragmentLines ==
  { Header(<<"s">>),                                              \* [s]
    AssignLine(<<"k">>, OpSET, <<"a", " ">> \o Backslash),        \* k = a \
    AssignLine(<<"x", ".", "k">>, OpSET, <<"a", " ">> \o Backslash),  \* x.k = a \
    AssignLine(<<"x", ".", "k">>, OpSET, <<"a">>),                \* x.k = a
    AssignLine(<<"j">>, OpSET, <<"b">>),                          \* j = b
    <<"b", " ">> \o Backslash,                                    \* b \
    Backslash \o <<"q">>,                                         \* \q
    <<" ", "#", " ", "c">>,                                       \* a comment
    <<>> }                                                        \* a blank line

FragmentOptions ==
  {ParserOptions(TRUE, TRUE, FALSE, TRUE, ns) : ns \in BOOLEAN} \cup {ParserPyOptions(FALSE)}

InitFragments == Start(FragmentOptions, {<<>>})

NextFragments ==
  \/ StartSource(1)
  \/ \E raw \in FragmentLines : ReadLine(raw, SectionsMaxLines)
  \/ EndOfInput

SpecFragments == InitFragments /\ [][NextFragments]_vars

\* the section of the header read last: the one saved while the key of the
\* pending assignment is qualified by a path (config.py)
HeaderSection(c) == IF c.restore_section # None THEN c.restore_section ELSE c.section

\* the place in the tree of the key of the pending assignment
PendingPath ==
  IF parser.impl = "parser.py" THEN ConfigPath(Qualified(ctx.section, ctx.key))
  ELSE Append(SectionPath(ctx.section), ctx.key)

\* the tree after the step differs from the tree before at most at the path
\* at and in the sections made on the way to it
WritesOnly(at) ==
  /\ \A p \in DOMAIN result : Has(result', p) /\ (result'[p] # result[p] => p = at)
  /\ \A p \in DOMAIN result' : ~Has(result, p) => IsPrefix(p, at)

\* C31: while a continuation is open, a line with text is taken as a
\* fragment of the value of the pending assignment, also when it reads as
\* an assignment or a header: it is joined to the value (and the value
\* committed to the pending key when the line does not continue) or
\* rejected as a malformed value; it does not change the section of the
\* last header and writes no key but the pending one.
C31_FragmentsOnly ==
  [][\A raw \in FragmentLines :
       (ctx.continuation /\ Reads(raw) /\ Text(raw) # <<>>)
         => /\ HeaderSection(ctx') = HeaderSection(ctx)
            /\ WritesOnly(PendingPath)
            /\ (pc' = "loop" /\ Continues(Text(raw)))
                 => /\ result' = result
                    /\ ctx'.continuation /\ ctx'.key = ctx.key
                    /\ ctx'.value = JoinNonEmpty(ctx.value, Fragment(Text(raw)))
            /\ (pc' = "loop" /\ ~Continues(Text(raw)))
                 => ~ctx'.continuation /\ ctx'.key = None /\ Has(result', PendingPath)
            /\ pc' = "raised" => result' = result]_vars

\* k = a \ was followed by [s] and that line ended the value: k holds the
\* list of a and [s], and no section s was made
C31_Witness ==
  /\ pc = "loop"
  /\ line = Header(<<"s">>)
  /\ ctx.line_number = 2
  /\ \E p \in DOMAIN result : result[p] = ListV(<< <<"a">>, <<"[", "s", "]">> >>)
  /\ \A p \in DOMAIN result : result[p].kind = "dict" => result[p].section # <<"s">>


\* the step hands a string of the batch to load_str
Starts == pc \in {"start", "returned"} /\ pc' = "loop"

\* C32: every source of a batch is parsed with a context of its own: it
\* holds no assignment, is at line 0, and its section is the root
\* (parser.py) or unset (config.py), whatever the context of the source
\* before was; the tree is the one the source before left.  So a first line
\* k = v is written at the root (parser.py) or rejected for want of a
\* section (config.py with enable_default_section disabled), also when the
\* source before ended in section s.
C32_FreshContext ==
  [][/\ Starts
          => /\ Idle(ctx') /\ ctx'.line_number = 0 /\ ctx'.restore_section = None
             /\ ctx'.section = (IF parser.impl = "parser.py" THEN <<>> ELSE None)
             /\ result' = result
     /\ \A raw \in {AssignLine(<<"k">>, OpSET, v) : v \in {<<"a">>, <<"b">>}} :
          (Reads(raw) /\ ctx.line_number = 0)
            => IF parser.impl = "parser.py"
                 THEN pc' = "loop" => Has(result', << <<"k">> >>)
                 ELSE RejectedWith("Expected a section") /\ result' = result]_vars

\* in parser.py: the first string ended in section s at its line 2, and the
\* second string is at its start, in no section
C32_Witness ==
  /\ parser.impl = "parser.py"
  /\ ctx_ids = <<"str#1">>
  /\ strings[1] = <<Header(<<"s">>), AssignLine(<<"k">>, OpSET, <<"a">>)>>
  /\ pc = "loop" /\ ctx.line_number = 0 /\ ctx.section = <<>>
  /\ Has(result, << <<"s">>, <<"k">> >>)


\* the section at path at holds nothing
EmptySection(d, at) == IsDict(d, at) /\ \A p \in DOMAIN d : IsPrefix(at, p) => p = at

\* C33: in Parser of config.py an accepted header of a section that is not
\* in the tree makes it at once, as an empty section; no header read later
\* removes a section or changes an entry, and the end of the input returns
\* the tree as it is, so a section without an assignment is in the result,
\* empty.
C33_HeaderMakesSection ==
  [][parser.impl = "config.py"
       => /\ \A n \in SectionNames :
               (Reads(Header(n)) /\ Accepted)
                 => /\ ~Has(result, SectionPath(n)) => EmptySection(result', SectionPath(n))
                    /\ \A p \in DOMAIN result : Holds(result', p, result[p])
          /\ (EndsInput /\ pc' = "returned") => result' = result]_vars

\* in config.py: [s] and then [] were read and the input ended; the result
\* holds s and '', both empty
C33_Witness ==
  /\ parser.impl = "config.py"
  /\ pc = "returned"
  /\ line = Header(<<>>)
  /\ DOMAIN result = {<< <<"s">> >>, << <<>> >>}
  /\ EmptySection(result, << <<"s">> >>)


(***************************************************************************)
(* SpecHeaders: one source of headers whose name has blanks around it or a *)
(* dot at its start or end, and of the assignment k = a; config.py with    *)
(* enable_default_section and nested_sections on and off, and parser.py.   *)
(***************************************************************************)
\* the header of a name with lead blanks before it and one blank after it
\* if trail
Spaced(name, lead, trail) ==
  Header((IF lead THEN Sp ELSE <<>>) \o name \o (IF trail THEN Sp ELSE <<>>))

HeaderNames == {<<>>, <<"s">>}

HeaderLines ==
  {Spaced(n, lead, trail) : n \in HeaderNames, lead \in BOOLEAN, trail \in BOOLEAN}
    \cup {Header(<<".", "s">>), Header(<<"s", ".">>), AssignLine(<<"k">>, OpSET, A)}

HeaderOptions ==
  {ParserOptions(eds, TRUE, FALSE, TRUE, ns) : eds \in BOOLEAN, ns \in BOOLEAN}
    \cup {ParserPyOptions(FALSE)}

InitHeaders == Start(HeaderOptions, {<<>>})

NextHeaders ==
  \/ StartSource(1)
  \/ \E raw \in HeaderLines : ReadLine(raw, MaxLines)
  \/ EndOfInput

SpecHeaders == InitHeaders /\ [][NextHeaders]_vars

\* C34: in Parser of config.py the header [.s], whose name starts with a
\* dot, is accepted if enable_default_section and nested_sections are both
\* enabled, and rejected with 'Invalid section name' if either is disabled;
\* the header [s.], whose name ends in a dot, is rejected with 'Invalid
\* section name' under every combination of the options.
C34_DottedNames ==
  [][parser.impl = "config.py"
       => /\ Reads(Header(<<".", "s">>))
               => IF parser.enable_default_section /\ parser.nested_sections
                    THEN Accepted
                    ELSE RejectedWith("Invalid section name")
          /\ Reads(Header(<<"s", ".">>)) => RejectedWith("Invalid section name")]_vars

\* C35: a header takes blanks on both sides of its name: [s], [ s], [s ] and
\* [ s ] have the same outcome and, accepted, make s the current section;
\* [] and [ ] have the same outcome and, accepted, make the root or default
\* section the current one.
C35_SpacedHeaders ==
  [][\A n \in HeaderNames, lead \in BOOLEAN, trail \in BOOLEAN :
       Reads(Spaced(n, lead, trail))
         => /\ SameAsReading(Header(n))
            /\ pc' = "loop" => ctx'.section = n]_vars


\* the section an assignment read now is made in: the default section before
\* any header
SectionNow == IF ctx.section = None THEN <<>> ELSE ctx.section

\* C36: in Parser of config.py with nested_sections enabled, once an
\* assignment qualified by a path is committed, on its line or on the line
\* that ends its value, the current section is again the section of the
\* last header; a context that holds no assignment has no saved section,
\* and a key without a path read then is written into the section of the
\* header.
C36_SectionRestored ==
  [][(parser.impl = "config.py" /\ parser.nested_sections)
       => /\ (pc' \in {"loop", "returned"} /\ Idle(ctx')) => ctx'.restore_section = None
          /\ (Reads(AssignLine(<<"x", ".", "k">>, OpSET, <<"a">>)) /\ Accepted
                /\ ~ctx.continuation)
               => /\ Idle(ctx') /\ ctx'.section = SectionNow
                  /\ Has(result', SectionPath(SectionNow) \o << <<"x">>, <<"k">> >>)
          /\ (ctx.continuation /\ pc' = "loop" /\ ~ctx'.continuation)
               => ctx'.section = HeaderSection(ctx)
          /\ (Reads(AssignLine(<<"j">>, OpSET, <<"b">>)) /\ Accepted /\ ~ctx.continuation)
               => Has(result', Append(SectionPath(SectionNow), <<"j">>))]_vars

\* [s], x.k = a \ and j = b were read, the last ending the value of x.k, and
\* then j = b again: j is in s, beside the section x
C36_Witness ==
  /\ parser.impl = "config.py" /\ parser.nested_sections
  /\ pc = "loop" /\ ctx.line_number = 4
  /\ line = AssignLine(<<"j">>, OpSET, <<"b">>)
  /\ ctx.section = <<"s">> /\ ctx.restore_section = None
  /\ Has(result, << <<"s">>, <<"x">>, <<"k">> >>)
  /\ Holds(result, << <<"s">>, <<"j">> >>, StrV(<<"b">>))


\* a line holding a comment only
CommentLine == <<" ", "#", " ", "c">>

\* the context after reading the line raw in the state before the step
ContextAfter(raw) ==
  load_line(parser, [d |-> result, ctx |-> ctx, exc |-> NoExc], raw).ctx

\* C37: in Parser of parser.py a line holding a comment only is handled as
\* a blank line is: read while a continuation is open it commits the pending
\* assignment and closes the continuation, so the line after it is
\* classified afresh, as an assignment, as a header or as a malformed line.
C37_CommentAsBlank ==
  [][parser.impl = "parser.py"
       => /\ Reads(CommentLine)
               => /\ SameAsReading(<<>>) /\ ctx' = ContextAfter(<<>>)
                  /\ pc' = "loop" => ~ctx'.continuation
                  /\ (ctx.continuation /\ Accepted)
                       => /\ Idle(ctx') /\ ctx'.section = ctx.section
                          /\ Holds(result', PendingPath, Stored(ctx.value))
                          /\ WritesOnly(PendingPath)
          /\ ~ctx.continuation
               => /\ (Reads(Header(<<"s">>)) /\ Accepted) => ctx'.section = <<"s">>
                  /\ (Reads(AssignLine(<<"j">>, OpSET, <<"b">>)) /\ Accepted)
                       => Has(result', ConfigPath(Qualified(ctx.section, <<"j">>)))
                  /\ Reads(<<"b", " ">> \o Backslash)
                       => /\ pc' = "raised" /\ result' = result
                          /\ exc'.type = "ParsingError" /\ exc'.text = "Malformed line"]_vars

\* k = a \, a comment and [s] were read: k holds a, and the third line was
\* taken as the header of s
C37_Witness ==
  /\ parser.impl = "parser.py"
  /\ pc = "loop" /\ ctx.line_number = 3 /\ line = Header(<<"s">>)
  /\ ctx.section = <<"s">> /\ Idle(ctx)
  /\ Holds(result, << <<"k">> >>, StrV(<<"a">>))



\* the call wrote to the tree and the write raised
CommitFailed == Raised(exc') /\ exc'.text # "Invalid state"

\* C38: in Context of context.py a commit that fails does not reset the
\* context: the path, the value and the mode of the assignment stay pending
\* and the section stays as it was, every assign() made then is refused
\* with ContextError 'Invalid state', and a context that holds an assignment
\* holds none after a call only when the call committed without an error.
C38_FailedCommitKept ==
  [][parser.impl = "parser.py"
       => /\ (Called("apply") /\ CommitFailed) => ctx' = ctx
          /\ (Called("assign") /\ CommitFailed)
               => /\ ctx'.key = call'.args[1] /\ ctx'.value = <<"v">>
                  /\ ctx'.assignment_mode = call'.args[2]
                  /\ ctx'.section = ctx.section
          /\ (Called("continue_assignment") /\ CommitFailed)
               => /\ ctx'.key = ctx.key /\ ctx'.assignment_mode = ctx.assignment_mode
                  /\ ctx'.value # None /\ ctx'.section = ctx.section
          /\ (Called("assign") /\ ~Idle(ctx)) => Refused
          /\ (~Idle(ctx) /\ Idle(ctx'))
               => /\ ~Raised(exc')
                  /\ Called("apply") \/ Called("continue_assignment")]_vars

\* a.b = v failed to commit below the scalar a, and the assign() made after
\* it was refused: the failed assignment is still the one pending
C38_Witness ==
  /\ parser.impl = "parser.py"
  /\ call.op = "assign" /\ exc.text = "Invalid state"
  /\ ctx.key = <<"a", ".", "b">> /\ ctx.value = <<"v">> /\ ~ctx.continuation
  /\ Has(result, << <<"a">> >>) /\ ~IsDict(result, << <<"a">> >>)


\* the context holds an assignment: its path, value and mode are set
Pending(c) == c.key # None /\ c.value # None /\ c.assignment_mode # "None"

\* C39: in every state of a Context of context.py, after calls of assign,
\* continue_assignment, apply and the section setter that returned or
\* raised, the path, the value and the mode are all None or all set, and
\* continuation is true only when they are set.
C39_AllOrNone ==
  parser.impl = "parser.py"
    => /\ Pending(ctx) \/ (ctx.key = None /\ ctx.value = None /\ ctx.assignment_mode = "None")
       /\ ctx.continuation => Pending(ctx)

\* an assignment was committed after its value was continued and another is
\* pending in the section s
C39_Witness ==
  /\ parser.impl = "parser.py"
  /\ Has(result, << <<"a">> >>)
  /\ ctx.section = <<"s">> /\ Pending(ctx) /\ ctx.continuation
  /\ ctx.key = <<"a", ".", "b">> /\ ctx.value = <<"v", " ", "w">>


(***************************************************************************)
(* The methods ReadOnlyDict inherits from dict.  __init__ does not hand    *)
(* the wrapped dict to dict.__init__, and the methods of dict do not go    *)
(* through the __getitem__ and __setitem__ of the class: they work on the  *)
(* items the view holds itself (own), <<key, value>> pairs in the order of *)
(* insertion.  A method returns [own, ret, exc]; a value returned is in a  *)
(* sequence of its own, and <<>> is None.                                   *)
(***************************************************************************)
Kept(o, ret) == [own |-> o, ret |-> ret, exc |-> NoExc]
Failed(o, e) == [own |-> o, ret |-> <<>>, exc |-> e]

\* the place of the key among the items, 0 when it is not there
Place(o, key) ==
  IF \E i \in DOMAIN o : o[i][1] = key THEN CHOOSE i \in DOMAIN o : o[i][1] = key ELSE 0

\* the items without the one at place i
Without(o, i) == SubSeq(o, 1, i - 1) \o SubSeq(o, i + 1, Len(o))

\* key in ro
ReadOnlyDict_contains(o, key) == Kept(o, Place(o, key) # 0)

\* ro.get(key)
ReadOnlyDict_get(o, key) ==
  IF Place(o, key) # 0 THEN Kept(o, <<o[Place(o, key)][2]>>) ELSE Kept(o, <<>>)

\* len(ro)
ReadOnlyDict_len(o) == Kept(o, Len(o))

\* list(ro)
ReadOnlyDict_iter(o) == Kept(o, [i \in DOMAIN o |-> o[i][1]])

\* ro.setdefault(key, value)
ReadOnlyDict_setdefault(o, key, value) ==
  IF Place(o, key) # 0 THEN Kept(o, <<o[Place(o, key)][2]>>)
  ELSE Kept(Append(o, <<key, value>>), <<value>>)

\* ro.pop(key)
ReadOnlyDict_pop(o, key) ==
  IF Place(o, key) # 0 THEN Kept(Without(o, Place(o, key)), <<o[Place(o, key)][2]>>)
  ELSE Failed(o, KeyError)

\* ro.popitem()
ReadOnlyDict_popitem(o) ==
  IF o # <<>> THEN Kept(SubSeq(o, 1, Len(o) - 1), o[Len(o)]) ELSE Failed(o, KeyError)

\* ro.clear()
ReadOnlyDict_clear(o) == Kept(<<>>, <<>>)

(***************************************************************************)
(* SpecReads: a ReadOnlyDict on a dict that its owner keeps changing, read *)
(* and called through the methods it inherits.  The keys are 1..MaxKey and *)
(* the values 2 and 4.                                                     *)
(***************************************************************************)
InitReads == Start({ParserPyOptions(FALSE)}, {<<>>})

\* the inherited method op(args) is called on the view and ends as r
Inherited(op, args, r) ==
  /\ own' = r.own
  /\ call' = Call(op, args, r.ret, r.exc)
  /\ UNCHANGED <<parser, strings, result, ctx, pc, exc, ctx_ids, line, repeat, wrapped>>

NextReads ==
  \/ \E k \in ViewKeys, v \in ViewValues :
       Calls("dict.__setitem__", <<k, v>>, dict_setitem(wrapped, k, v))
  \/ \E k \in ViewKeys : Calls("dict.__delitem__", <<k>>, dict_delitem(wrapped, k))
  \/ \E k \in ViewKeys : Calls("__getitem__", <<k>>, ReadOnlyDict_getitem(wrapped, k))
  \/ \E k \in ViewKeys : Inherited("__contains__", <<k>>, ReadOnlyDict_contains(own, k))
  \/ \E k \in ViewKeys : Inherited("get", <<k>>, ReadOnlyDict_get(own, k))
  \/ Inherited("__len__", <<>>, ReadOnlyDict_len(own))
  \/ Inherited("__iter__", <<>>, ReadOnlyDict_iter(own))
  \/ \E k \in ViewKeys, v \in ViewValues :
       Inherited("setdefault", <<k, v>>, ReadOnlyDict_setdefault(own, k, v))
  \/ \E k \in ViewKeys : Inherited("pop", <<k>>, ReadOnlyDict_pop(own, k))
  \/ Inherited("popitem", <<>>, ReadOnlyDict_popitem(own))
  \/ Inherited("clear", <<>>, ReadOnlyDict_clear(own))

SpecReads == InitReads /\ [][NextReads]_vars

\* C40: every read of a ReadOnlyDict agrees with the wrapped dict: k in ro,
\* ro.get(k), len(ro) and the iteration over ro answer as ro[k] and the
\* wrapped dict do, and setdefault, pop, popitem and clear change neither
\* what the view holds nor what the wrapped dict holds.
C40_ConsistentReads ==
  [][/\ call'.op = "__contains__" => call'.ret = (call'.args[1] \in DOMAIN wrapped)
     /\ call'.op = "get" =>
          call'.ret = IF call'.args[1] \in DOMAIN wrapped
                        THEN <<wrapped[call'.args[1]]>> ELSE <<>>
     /\ call'.op = "__len__" => call'.ret = Cardinality(DOMAIN wrapped)
     /\ call'.op = "__iter__" =>
          /\ Len(call'.ret) = Cardinality(DOMAIN wrapped)
          /\ {call'.ret[i] : i \in DOMAIN call'.ret} = DOMAIN wrapped
     /\ call'.op \in {"setdefault", "pop", "popitem", "clear"} =>
          wrapped' = wrapped /\ own' = own]_vars

=============================================================================
